---- MODULE Spec2Model ----
(***************************************************************************)
(* Point-in-polygon classification and the community-area store of         *)
(* services/geospatialService.ts (class GeospatialService), and the park   *)
(* conversion of services/chicagoParkService.ts that calls the classifier. *)
(*                                                                         *)
(* Coordinates are small integers.  The ring test divides only when the    *)
(* edge straddles y, so yj - yi is non-zero; on integers of this size the  *)
(* IEEE-754 quotient is exact when it is an integer and otherwise lies     *)
(* strictly between the same two integers as the rational quotient, so     *)
(* the comparison  x < (xj-xi)*(y-yi)/(yj-yi) + xi  is decided here by     *)
(* cross-multiplication with the sign of yj - yi.                          *)
(*                                                                         *)
(* The unit is a tenth of a degree and the origin is the south-west corner *)
(* of the bounding box of isValidChicagoCoordinates (41.6 N, 88.3 W):      *)
(* latitude 1 is 41.7 N, longitude 3 is 88.0 W.                            *)
(***************************************************************************)
EXTENDS Integers, Sequences, FiniteSets, TLC

VARIABLES
    communityAreasCache,    \* GeospatialService.communityAreasCache
    lastCommunityLoadTime,  \* GeospatialService.lastCommunityLoadTime
    now,                    \* the value Date.now() returns
    ticks,                  \* how many times the clock has advanced
    pc,                     \* position of each caller inside its async call
    req,                    \* the call each caller made and its arguments
    result,                 \* what the call's promise settled with
    refresh,                \* history: what became of the refresh each call started
    lastResponseBody,       \* history: the data of the last response admitted
    outer,                  \* the operation of each caller that wraps its classifier call
    job,                    \* the park correction or validation each caller runs
    parksCache,             \* ChicagoParkService.parksCache
    lastFetchTime,          \* ChicagoParkService.lastFetchTime
    svc,                    \* position of each call into ChicagoParkService
    wIn,                    \* winding check: the polygon passed to fixPolygonWinding
    wOut,                   \* winding check: the polygon returned
    wTwice,                 \* winding check: the polygon returned for wOut
    wFn,                    \* winding check: the function applied
    rows,                   \* the rows of table community_areas
    imp,                    \* position and counters of importChicagoPortalCommunities
    gPoint,                 \* pure-function check: the point [x, y]
    gGeom,                  \* pure-function check: the geometry object
    gOut,                   \* pure-function check: the value returned
    gFn                     \* pure-function check: the function applied

vars == <<communityAreasCache, lastCommunityLoadTime, now, ticks, pc, req,
          result, refresh, lastResponseBody, outer, job, parksCache, lastFetchTime,
          svc, wIn, wOut, wTwice, wFn, rows, imp, gPoint, gGeom, gOut, gFn>>

geoVars == <<gPoint, gGeom, gOut, gFn>>

svcVars == <<parksCache, lastFetchTime, svc>>

parkVars == <<job, parksCache, lastFetchTime, svc>>

libVars == <<wIn, wOut, wTwice, wFn, rows, imp>>

(***************************************************************************)
(* Bounds of the model.                                                    *)
(***************************************************************************)
MaxFeedLen == 2     \* records in one feed payload
MaxTicks == 1       \* clock advances in one behaviour
MaxHoles == 2       \* hole rings of a polygon in the pure-function check
MaxPolys == 2       \* polygons of a MultiPolygon in the pure-function check
GridMax == 3        \* ring vertices lie on 0, 2, .., 2*GridMax
MaxImportLen == 2   \* features in the feed of an import
MaxRuns == 2        \* runs of the import in one behaviour
MaxRingLen == 4     \* vertices of a ring in the ring check
ValidatorMargin == 2    \* tenths of a degree around the box in the validator check

(***************************************************************************)
(* Ring, polygon and geometry containment.                                 *)
(***************************************************************************)

\* The second conjunct of line 210, x < (xj - xi) * (y - yi) / (yj - yi) + xi,
\* evaluated only when yi # yj.
XBeforeIntersection(x, y, xi, yi, xj, yj) ==
    LET d == yj - yi
        num == (xj - xi) * (y - yi)
    IN  IF d > 0 THEN (x - xi) * d < num ELSE (x - xi) * d > num

EdgeToggles_closedStraddle(x, y, vi, vj) ==
    /\ (vi[2] >= y) # (vj[2] > y)
    /\ XBeforeIntersection(x, y, vi[1], vi[2], vj[1], vj[2])

EdgeToggles(x, y, vi, vj) ==
    /\ (vi[2] > y) # (vj[2] > y)
    /\ XBeforeIntersection(x, y, vi[1], vi[2], vj[1], vj[2])

\* The loop  for (let i = 0, j = n - 1; i < n; j = i++)  with 1-based indices.
RECURSIVE pointInRingLoop(_, _, _, _, _)
pointInRingLoop(point, ring, i, j, inside) ==
    IF i > Len(ring) THEN inside
    ELSE pointInRingLoop(point, ring, i + 1, i,
            IF EdgeToggles(point[1], point[2], ring[i], ring[j])
            THEN ~inside ELSE inside)

pointInRing_noWrap(point, ring) == pointInRingLoop(point, ring, 2, 1, FALSE)

pointInRing_startsInside(point, ring) == pointInRingLoop(point, ring, 1, Len(ring), TRUE)

\* for (let i = 0, j = n - 2; i < n - 1; j = i++): the last vertex is taken
\* to repeat the first.
pointInRing_assumesClosed(point, ring) ==
    pointInRingLoop(point, SubSeq(ring, 1, Len(ring) - 1), 1, Len(ring) - 1, FALSE)

pointInRing(point, ring) == pointInRingLoop(point, ring, 1, Len(ring), FALSE)

\* The loop over the hole rings, coordinates[1..] (1-based: 2..Len).
RECURSIVE inSomeHoleFrom(_, _, _)
inSomeHoleFrom(point, coordinates, i) ==
    IF i > Len(coordinates) THEN FALSE
    ELSE IF pointInRing(point, coordinates[i]) THEN TRUE
    ELSE inSomeHoleFrom(point, coordinates, i + 1)

\* coordinates[0] of an empty array is undefined and ring.length throws.
isPointInPolygonThrows(point, coordinates) == Len(coordinates) = 0

isPointInPolygon_holesFromSecond(point, coordinates) ==
    IF ~pointInRing(point, coordinates[1]) THEN FALSE
    ELSE ~inSomeHoleFrom(point, coordinates, 3)

isPointInPolygon(point, coordinates) ==
    IF ~pointInRing(point, coordinates[1]) THEN FALSE
    ELSE ~inSomeHoleFrom(point, coordinates, 2)

\* Array.prototype.some over the polygons: "true", "false", or "throw" when a
\* polygon evaluated before the first match throws.
RECURSIVE someFrom(_, _, _)
someFrom(point, polygons, i) ==
    IF i > Len(polygons) THEN "false"
    ELSE IF isPointInPolygonThrows(point, polygons[i]) THEN "throw"
    ELSE IF isPointInPolygon(point, polygons[i]) THEN "true"
    ELSE someFrom(point, polygons, i + 1)

somePolygon_everyPolygon(point, polygons) ==
    IF \E i \in 1..Len(polygons) : isPointInPolygonThrows(point, polygons[i]) THEN "throw"
    ELSE IF \A i \in 1..Len(polygons) : isPointInPolygon(point, polygons[i])
         THEN "true" ELSE "false"

somePolygon(point, polygons) == someFrom(point, polygons, 1)

\* A geometry object: type, whether it has a coordinates property, and the
\* coordinates.  NoGeometry stands for a missing (undefined/null) geometry.
NoGeometry == [type |-> "undefined", hasCoordinates |-> FALSE, coordinates |-> <<>>]

isPointInGeometry(point, geometry) ==
    IF geometry.type = "undefined" \/ ~geometry.hasCoordinates THEN FALSE
    ELSE IF geometry.type = "Polygon" THEN
        IF isPointInPolygonThrows(point, geometry.coordinates) THEN FALSE
        ELSE isPointInPolygon(point, geometry.coordinates)
    ELSE IF geometry.type = "MultiPolygon" THEN
        somePolygon(point, geometry.coordinates) = "true"
    ELSE FALSE

(***************************************************************************)
(* Values of the feed: strings, geometries, Area Records.                  *)
(***************************************************************************)

\* A field holding a string is a record: whether the property is present and
\* its characters.  A field of a JSON record may be absent (undefined).
Absent == [defined |-> FALSE, chars |-> <<>>]
Str(cs) == [defined |-> TRUE, chars |-> cs]

\* JavaScript truthiness of such a field: absent and "" are falsy.
Truthy(v) == v.defined /\ Len(v.chars) > 0

Digits == {"0", "1", "2", "3", "4", "5", "6", "7", "8", "9"}

DigitValue(c) ==
    CASE c = "0" -> 0 [] c = "1" -> 1 [] c = "2" -> 2 [] c = "3" -> 3
      [] c = "4" -> 4 [] c = "5" -> 5 [] c = "6" -> 6 [] c = "7" -> 7
      [] c = "8" -> 8 [] c = "9" -> 9

\* A JavaScript number that may be NaN.
NaN == [nan |-> TRUE, n |-> 0]
Num(k) == [nan |-> FALSE, n |-> k]

RECURSIVE skipSpaces(_, _)
skipSpaces(cs, i) ==
    IF i <= Len(cs) /\ cs[i] = " " THEN skipSpaces(cs, i + 1) ELSE i

RECURSIVE parseDigits(_, _, _, _)
parseDigits(cs, i, acc, any) ==
    IF i <= Len(cs) /\ cs[i] \in Digits
    THEN parseDigits(cs, i + 1, 10 * acc + DigitValue(cs[i]), TRUE)
    ELSE IF any THEN Num(acc) ELSE NaN

\* parseInt(string) in radix 10: leading white space, an optional sign, the
\* longest prefix of digits; NaN when there is none.  (The strings of the
\* model carry no "0x" prefix.)  parseInt(undefined) is NaN.
parseInt(v) ==
    IF ~v.defined THEN NaN
    ELSE LET cs == v.chars
             i == skipSpaces(cs, 1)
             neg == i <= Len(cs) /\ cs[i] = "-"
             j == IF i <= Len(cs) /\ cs[i] \in {"-", "+"} THEN i + 1 ELSE i
             r == parseDigits(cs, j, 0, FALSE)
         IN  IF r.nan THEN NaN ELSE IF neg THEN Num(0 - r.n) ELSE r

\* The geometries the feed records carry, by name.  Rings are lists of
\* [longitude, latitude] vertices, closed as GeoJSON closes them.
Rect(x1, y1, x2, y2) == <<<<x1, y1>>, <<x2, y1>>, <<x2, y2>>, <<x1, y2>>, <<x1, y1>>>>

GeometryNames == {"west", "east"}

Geometry(name) ==
    CASE name = "west" ->
            [type |-> "Polygon", hasCoordinates |-> TRUE,
             coordinates |-> <<Rect(0, 0, 4, 2)>>]
      [] name = "east" ->
            [type |-> "MultiPolygon", hasCoordinates |-> TRUE,
             coordinates |-> << <<Rect(2, 0, 6, 2)>>, <<Rect(8, 8, 10, 10)>> >>]
      [] name = "noCoordinates" ->
            [type |-> "Polygon", hasCoordinates |-> FALSE, coordinates |-> <<>>]
      [] name = "point" ->
            [type |-> "Point", hasCoordinates |-> TRUE, coordinates |-> <<3, 1>>]
      [] name = "noRings" ->
            [type |-> "Polygon", hasCoordinates |-> TRUE, coordinates |-> <<>>]
      [] name = "emptyPart" ->
            [type |-> "MultiPolygon", hasCoordinates |-> TRUE,
             coordinates |-> << <<>>, <<Rect(0, 0, 6, 2)>> >>]
      [] name = "parkWestEast" ->
            [type |-> "Polygon", hasCoordinates |-> TRUE,
             coordinates |-> << <<<<2, 1>>, <<4, 0>>, <<4, 2>>, <<2, 1>>>> >>]
      [] name = "parkEast" ->
            [type |-> "MultiPolygon", hasCoordinates |-> TRUE,
             coordinates |-> << << <<<<4, 1>>, <<6, 0>>, <<6, 2>>, <<4, 1>>>> >> >>]
      [] name = "parkNorth" ->
            [type |-> "Polygon", hasCoordinates |-> TRUE,
             coordinates |-> << <<<<0, 3>>, <<2, 2>>, <<2, 4>>, <<0, 3>>>> >>]
      [] name = "parkFar" ->
            [type |-> "MultiPolygon", hasCoordinates |-> TRUE,
             coordinates |-> << << <<<<8, 9>>, <<10, 8>>, <<10, 10>>, <<8, 9>>>> >> >>]
      [] OTHER -> NoGeometry

Area(g, id, name) == [the_geom |-> g, area_numbe |-> id, community |-> name]

\* Records a feed may carry: complete ones, and ones missing a field.
FeedRecords ==
    { Area("west", Str(<<"1">>), Str(<<"W">>)),
      Area("east", Str(<<"2">>), Str(<<"E">>)),
      Area("east", Str(<<"0">>), Str(<<"Z">>)),
      Area("undefined", Str(<<"3">>), Str(<<"G">>)),
      Area("west", Absent, Str(<<"I">>)),
      Area("east", Str(<<"6">>), Str(<<>>)) }

SeqsUpTo(S, n) == UNION { [1..k -> S] : k \in 0..n }

\* What response.json() may resolve to: an array of records, or a JSON value
\* that is no array (data.filter is then not a function).
Feeds ==
    {[array |-> FALSE, items |-> <<>>]}
        \cup {[array |-> TRUE, items |-> s] : s \in SeqsUpTo(FeedRecords, MaxFeedLen)}

(***************************************************************************)
(* The community-area store and the calls that read it.                    *)
(***************************************************************************)

CACHE_DURATION == 60 * 60 * 1000

\* Date.now() when the service is constructed: any wall-clock time is more
\* than CACHE_DURATION after the epoch, which lastCommunityLoadTime starts at.
StartTime == CACHE_DURATION + 1

Callers == {"c1", "c2"}

\* (latitude, longitude) arguments of the classifier, and areaNumber arguments
\* of the lookup by identifier.
QueryPoints == {<<1, 3>>, <<1, 5>>, <<3, 1>>, <<50, 50>>}
AreaNumbers == {0, 1, 3}

NoArea == Area("undefined", Absent, Absent)

Requests ==
    {[op |-> "getCommunityAreaForCoordinates", lat |-> q[1], lng |-> q[2], areaNumber |-> 0]
        : q \in QueryPoints}
    \cup {[op |-> "getCommunityAreaInfo", lat |-> 0, lng |-> 0, areaNumber |-> n]
        : n \in AreaNumbers}

NoRequest == [op |-> "none", lat |-> 0, lng |-> 0, areaNumber |-> 0]

\* What a call's promise settles with.
Pending == [kind |-> "pending", n |-> 0, area |-> NoArea]
Null == [kind |-> "null", n |-> 0, area |-> NoArea]
Number(k) == [kind |-> "number", n |-> k, area |-> NoArea]
Found(a) == [kind |-> "area", n |-> 0, area |-> a]
Rejected == [kind |-> "error", n |-> 0, area |-> NoArea]

\* The operation that wraps a caller's classifier call: which one, its
\* argument, whether it has returned (null or a value), the coordinates it
\* obtained (inLat, inLng), the coordinates of the value it returned and the
\* classifier result it holds.
NoOuter ==
    [op |-> "none", arg |-> "", state |-> "none", inLat |-> 0, inLng |-> 0,
     lat |-> 0, lng |-> 0, inner |-> Pending]

\* A Park: id, name, coordinates [lat, lng], communityArea, and the fields
\* no operation of the model reads (address, amenities, description, size).
NoPark == [id |-> "", name |-> "", lat |-> 0, lng |-> 0, communityArea |-> 0, rest |-> ""]
Park(id, lat, lng, area) ==
    [id |-> id, name |-> "Park", lat |-> lat, lng |-> lng, communityArea |-> area,
     rest |-> "details"]

\* A call of correctParkCommunityArea or validateParkLocation: the park
\* passed as it was at the call (original) and as it is now (park), the
\* park returned and whether it is the object passed, and validate's answer.
NoJob ==
    [op |-> "none", state |-> "none", original |-> NoPark, park |-> NoPark,
     returned |-> NoPark, same |-> FALSE, valid |-> "unset"]

\* The park-service part of the state when no park operation runs.
\* The two calls into ChicagoParkService the model follows: a getAllParks
\* call and a validateAndCorrectParkLocations call.
Services == {"getAllParks", "validateAndCorrectParkLocations"}

NoService ==
    [pc |-> "idle", apiData |-> <<>>, allParks |-> <<>>, correctedParks |-> <<>>]

InertParks ==
    /\ job = [p \in Callers |-> NoJob]
    /\ parksCache = <<>>
    /\ lastFetchTime = 0
    /\ svc = [s \in Services |-> NoService]

NoImport ==
    [pc |-> "idle", features |-> <<>>, fetched |-> FALSE, index |-> 0, imported |-> 0,
     skipped |-> 0, errors |-> <<>>, run |-> 0, again |-> FALSE, rowsBefore |-> 0,
     dbFailed |-> FALSE]

InertLib ==
    /\ wIn = <<>>
    /\ wOut = <<>>
    /\ wTwice = <<>>
    /\ wFn = "none"
    /\ rows = <<>>
    /\ imp = NoImport

shouldRefreshCommunityCache_atLeast ==
    \/ now - lastCommunityLoadTime >= CACHE_DURATION
    \/ Len(communityAreasCache) = 0

shouldRefreshCommunityCache ==
    \/ now - lastCommunityLoadTime > CACHE_DURATION
    \/ Len(communityAreasCache) = 0

\* parseInt(area.area_numbe) || null : 0 and NaN are falsy.
parseIntOrNull(v) ==
    LET k == parseInt(v)
    IN  IF k.nan \/ k.n = 0 THEN Null ELSE Number(k.n)

\* The loop of getCommunityAreaForCoordinates over the cache, from index i.
RECURSIVE firstContainingFrom(_, _, _)
firstContainingFrom(cache, point, i) ==
    IF i > Len(cache) THEN Null
    ELSE IF isPointInGeometry(point, Geometry(cache[i].the_geom))
         THEN parseIntOrNull(cache[i].area_numbe)
         ELSE firstContainingFrom(cache, point, i + 1)

classify_swapped(cache, lat, lng) == firstContainingFrom(cache, <<lat, lng>>, 1)

\* Lines 34-42: point = [lng, lat], then the loop.
classify(cache, lat, lng) == firstContainingFrom(cache, <<lng, lat>>, 1)

\* Array.prototype.find, then || null.
RECURSIVE findFrom(_, _, _)
findFrom(cache, areaNumber, i) ==
    IF i > Len(cache) THEN Null
    ELSE LET k == parseInt(cache[i].area_numbe)
         IN  IF ~k.nan /\ k.n = areaNumber THEN Found(cache[i])
             ELSE findFrom(cache, areaNumber, i + 1)

\* area.area_numbe === areaNumber: a string is never identical to a number.
lookup_withoutParseInt(cache, areaNumber) == Null

lookup(cache, areaNumber) == findFrom(cache, areaNumber, 1)

admits_withoutName(area) ==
    /\ area.the_geom # "undefined"
    /\ Truthy(area.area_numbe)

\* The filter predicate: area.the_geom && area.area_numbe && area.community.
admits(area) ==
    /\ area.the_geom # "undefined"
    /\ Truthy(area.area_numbe)
    /\ Truthy(area.community)

Init ==
    /\ communityAreasCache = <<>>
    /\ lastCommunityLoadTime = 0
    /\ lastResponseBody = [array |-> TRUE, items |-> <<>>]
    /\ now = StartTime
    /\ ticks = 0
    /\ pc = [p \in Callers |-> IF p = "c1" THEN "idle" ELSE "absent"]
    /\ req = [p \in Callers |-> NoRequest]
    /\ result = [p \in Callers |-> Pending]
    /\ refresh = [p \in Callers |-> "none"]
    /\ outer = [p \in Callers |-> NoOuter]
    /\ InertParks
    /\ InertLib
    /\ gPoint = <<0, 0>>
    /\ gGeom = NoGeometry
    /\ gOut = "unset"
    /\ gFn = "none"

\* The synchronous start of getCommunityAreaForCoordinates or
\* getCommunityAreaInfo: the call runs through ensureCommunityAreasLoaded and,
\* when a refresh is due, into loadCommunityAreas up to its await of fetch.
Enter(p, r) ==
    /\ req' = [req EXCEPT ![p] = r]
    /\ result' = [result EXCEPT ![p] = Pending]
    /\ pc' = [pc EXCEPT ![p] = IF shouldRefreshCommunityCache THEN "fetching" ELSE "ensured"]
    /\ refresh' = [refresh EXCEPT ![p] =
            IF shouldRefreshCommunityCache THEN "inflight" ELSE "none"]
    /\ UNCHANGED <<communityAreasCache, lastCommunityLoadTime, lastResponseBody, now, ticks>>
    /\ UNCHANGED <<libVars, geoVars, libVars>>

\* A caller invokes getCommunityAreaForCoordinates or getCommunityAreaInfo
\* directly.
Call(p, r) ==
    /\ pc[p] \in {"idle", "done"}
    /\ outer[p].state # "pending"
    /\ Enter(p, r)
    /\ outer' = [outer EXCEPT ![p] = NoOuter]
    /\ UNCHANGED parkVars

LoadThrows_clearsCache(p) ==
    /\ pc' = [pc EXCEPT ![p] = "done"]
    /\ result' = [result EXCEPT ![p] = Rejected]
    /\ communityAreasCache' = <<>>
    /\ lastCommunityLoadTime' = 0
    /\ UNCHANGED <<lastResponseBody, req, now, ticks>>
    /\ UNCHANGED <<libVars, geoVars, outer, parkVars>>

LoadThrows_swallowed(p) ==
    /\ pc' = [pc EXCEPT ![p] = "ensured"]
    /\ UNCHANGED <<result, communityAreasCache, lastCommunityLoadTime, lastResponseBody,
                   req, now, ticks>>
    /\ UNCHANGED <<libVars, geoVars, outer, parkVars>>

LoadThrows_marksFresh(p) ==
    /\ pc' = [pc EXCEPT ![p] = "done"]
    /\ result' = [result EXCEPT ![p] = Rejected]
    /\ lastCommunityLoadTime' = now
    /\ UNCHANGED <<communityAreasCache, lastResponseBody, req, now, ticks>>
    /\ UNCHANGED <<libVars, geoVars, outer, parkVars>>

\* The catch block of loadCommunityAreas rethrows; neither
\* ensureCommunityAreasLoaded nor the public method catches, so the call's
\* promise rejects.
LoadThrows(p) ==
    /\ pc' = [pc EXCEPT ![p] = "done"]
    /\ result' = [result EXCEPT ![p] = Rejected]
    /\ UNCHANGED <<communityAreasCache, lastCommunityLoadTime, lastResponseBody,
                   req, now, ticks>>
    /\ UNCHANGED <<libVars, geoVars, outer, parkVars>>

\* The fetch promise rejects, or resolves with a response that is not ok.
FetchFails(p) ==
    /\ pc[p] = "fetching"
    /\ refresh' = [refresh EXCEPT ![p] = "failed"]
    /\ LoadThrows(p)

\* The fetch promise resolves with an ok response; response.json() is awaited.
FetchResolves(p) ==
    /\ pc[p] = "fetching"
    /\ pc' = [pc EXCEPT ![p] = "parsing"]
    /\ UNCHANGED <<communityAreasCache, lastCommunityLoadTime, lastResponseBody,
                   req, result, refresh, now, ticks>>
    /\ UNCHANGED <<libVars, geoVars, outer, parkVars>>

\* response.json() rejects (the body is no JSON).
JsonFails(p) ==
    /\ pc[p] = "parsing"
    /\ refresh' = [refresh EXCEPT ![p] = "failed"]
    /\ LoadThrows(p)

\* response.json() resolves with data; lines 116-120 run.
JsonResolves(p, data) ==
    /\ pc[p] = "parsing"
    /\ IF data.array
       THEN /\ communityAreasCache' = SelectSeq(data.items, admits)
            /\ lastCommunityLoadTime' = now
            /\ lastResponseBody' = data
            /\ pc' = [pc EXCEPT ![p] = "ensured"]
            /\ refresh' = [refresh EXCEPT ![p] = "loaded"]
            /\ UNCHANGED <<req, result, now, ticks>>
            /\ UNCHANGED <<libVars, geoVars, outer, parkVars>>
       ELSE /\ refresh' = [refresh EXCEPT ![p] = "failed"]
            /\ LoadThrows(p)

Reversed(cache) == [i \in 1..Len(cache) |-> cache[Len(cache) - i + 1]]

\* for (const area of this.communityAreasCache.reverse()): reverses in place.
Continue_reversesCache(p) ==
    /\ pc[p] = "ensured"
    /\ communityAreasCache' = Reversed(communityAreasCache)
    /\ result' = [result EXCEPT ![p] =
            IF req[p].op = "getCommunityAreaForCoordinates"
            THEN classify(communityAreasCache', req[p].lat, req[p].lng)
            ELSE lookup(communityAreasCache', req[p].areaNumber)]
    /\ pc' = [pc EXCEPT ![p] = "done"]
    /\ UNCHANGED <<lastCommunityLoadTime, lastResponseBody, req, refresh, now, ticks>>
    /\ UNCHANGED <<libVars, geoVars, outer, parkVars>>

\* After the await of ensureCommunityAreasLoaded: the loop, or the find.
Continue(p) ==
    /\ pc[p] = "ensured"
    /\ result' = [result EXCEPT ![p] =
            IF req[p].op = "getCommunityAreaForCoordinates"
            THEN classify(communityAreasCache, req[p].lat, req[p].lng)
            ELSE lookup(communityAreasCache, req[p].areaNumber)]
    /\ pc' = [pc EXCEPT ![p] = "done"]
    /\ UNCHANGED <<communityAreasCache, lastCommunityLoadTime, lastResponseBody,
                   req, refresh, now, ticks>>
    /\ UNCHANGED <<libVars, geoVars, outer, parkVars>>

\* Time passes: exactly the cache duration, or a millisecond more.
Tick(d) ==
    /\ ticks < MaxTicks
    /\ now' = now + d
    /\ ticks' = ticks + 1
    /\ UNCHANGED <<communityAreasCache, lastCommunityLoadTime, lastResponseBody,
                   pc, req, result, refresh>>
    /\ UNCHANGED <<libVars, geoVars, outer, parkVars>>

Next ==
    \/ \E p \in Callers, r \in Requests : Call(p, r)
    \/ \E p \in Callers : FetchFails(p)
    \/ \E p \in Callers : FetchResolves(p)
    \/ \E p \in Callers : JsonFails(p)
    \/ \E p \in Callers, data \in Feeds : JsonResolves(p, data)
    \/ \E p \in Callers : Continue(p)
    \/ \E d \in {CACHE_DURATION, CACHE_DURATION + 1} : Tick(d)

Spec == Init /\ [][Next]_vars

\* Two callers start their calls concurrently, as the per-park calls that
\* loadParksFromAPI issues through Promise.all do.
InitConcurrent ==
    /\ communityAreasCache = <<>>
    /\ lastCommunityLoadTime = 0
    /\ lastResponseBody = [array |-> TRUE, items |-> <<>>]
    /\ now = StartTime
    /\ ticks = 0
    /\ pc = [p \in Callers |-> "idle"]
    /\ req = [p \in Callers |-> NoRequest]
    /\ result = [p \in Callers |-> Pending]
    /\ refresh = [p \in Callers |-> "none"]
    /\ outer = [p \in Callers |-> NoOuter]
    /\ InertParks
    /\ InertLib
    /\ gPoint = <<0, 0>>
    /\ gGeom = NoGeometry
    /\ gOut = "unset"
    /\ gFn = "none"

SpecConcurrent == InitConcurrent /\ [][Next]_vars

\* Records whose geometry is malformed: no coordinates property, a type that
\* is neither Polygon nor MultiPolygon, a Polygon with no ring, and a
\* MultiPolygon whose first polygon has no ring.  The filter admits them all.
MalformedRecords ==
    { Area("noCoordinates", Str(<<"7">>), Str(<<"N">>)),
      Area("point", Str(<<"8">>), Str(<<"P">>)),
      Area("noRings", Str(<<"9">>), Str(<<"R">>)),
      Area("emptyPart", Str(<<"4">>), Str(<<"M">>)) }

ScanRecords ==
    MalformedRecords
        \cup { Area("west", Str(<<"1">>), Str(<<"W">>)),
               Area("east", Str(<<"2">>), Str(<<"E">>)),
               Area("east", Str(<<"0">>), Str(<<"Z">>)) }

\* The store just after a successful refresh whose feed carried such records.
InitScan ==
    /\ communityAreasCache \in SeqsUpTo(ScanRecords, MaxFeedLen) \ {<<>>}
    /\ lastCommunityLoadTime = StartTime
    /\ lastResponseBody = [array |-> TRUE, items |-> communityAreasCache]
    /\ now = StartTime
    /\ ticks = 0
    /\ pc = [p \in Callers |-> IF p = "c1" THEN "idle" ELSE "absent"]
    /\ req = [p \in Callers |-> NoRequest]
    /\ result = [p \in Callers |-> Pending]
    /\ refresh = [p \in Callers |-> "none"]
    /\ outer = [p \in Callers |-> NoOuter]
    /\ InertParks
    /\ InertLib
    /\ gPoint = <<0, 0>>
    /\ gGeom = NoGeometry
    /\ gOut = "unset"
    /\ gFn = "none"

\* Calls on the fresh store: none of them refreshes.
NextScan ==
    \/ \E r \in Requests : Call("c1", r)
    \/ Continue("c1")

SpecScan == InitScan /\ [][NextScan]_vars

(***************************************************************************)
(* The containment functions applied to bounded inputs.                    *)
(***************************************************************************)

VertexCoords == {2 * k : k \in 0..GridMax}
PointCoords == 0..(2 * GridMax)
Extent == 2 * GridMax

Squares ==
    {Rect(ab[1], ab[1], ab[2], ab[2]) :
        ab \in {v \in VertexCoords \X VertexCoords : v[1] < v[2]}}
SmallSquares == {Rect(a, a, a + 2, a + 2) : a \in {c \in VertexCoords : c + 2 <= Extent}}
Triangle == <<<<0, 0>>, <<Extent, 0>>, <<0, Extent>>>>
Rings == Squares \cup {Triangle, <<>>}

\* Polygons: an exterior ring and up to MaxHoles hole rings.
Polygons ==
    {<<e>> \o hs : e \in Rings, hs \in SeqsUpTo(SmallSquares, MaxHoles)}

\* Constituents of a MultiPolygon: polygons without holes, a square with one
\* hole, and a polygon with no ring at all.
Parts ==
    {<<e>> : e \in Rings}
        \cup {<<Rect(0, 0, Extent, Extent), h>> : h \in SmallSquares}
        \cup {<<>>}

GeoPolygons ==
    {[type |-> "Polygon", hasCoordinates |-> TRUE, coordinates |-> c] : c \in Polygons}
GeoMultiPolygons ==
    {[type |-> "MultiPolygon", hasCoordinates |-> TRUE, coordinates |-> c]
        : c \in SeqsUpTo(Parts, MaxPolys)}

InitGeo ==
    /\ communityAreasCache = <<>>
    /\ lastCommunityLoadTime = 0
    /\ lastResponseBody = [array |-> TRUE, items |-> <<>>]
    /\ now = StartTime
    /\ ticks = 0
    /\ pc = [p \in Callers |-> "absent"]
    /\ req = [p \in Callers |-> NoRequest]
    /\ result = [p \in Callers |-> Pending]
    /\ refresh = [p \in Callers |-> "none"]
    /\ outer = [p \in Callers |-> NoOuter]
    /\ InertParks
    /\ InertLib
    /\ gPoint \in PointCoords \X PointCoords
    /\ \/ gGeom \in GeoPolygons
       \/ gGeom \in GeoMultiPolygons
    /\ gOut = "unset"
    /\ gFn = "none"

Bool(b) == IF b THEN "true" ELSE "false"

\* isPointInPolygon(point, geometry.coordinates) on a Polygon's coordinates.
ApplyPolygon ==
    /\ gFn = "none"
    /\ gGeom.type = "Polygon"
    /\ gFn' = "isPointInPolygon"
    /\ gOut' = IF isPointInPolygonThrows(gPoint, gGeom.coordinates) THEN "throw"
               ELSE Bool(isPointInPolygon(gPoint, gGeom.coordinates))
    /\ UNCHANGED <<gPoint, gGeom>>
    /\ UNCHANGED <<communityAreasCache, lastCommunityLoadTime, lastResponseBody,
                   now, ticks, pc, req, result, refresh, outer, parkVars, libVars>>

\* isPointInGeometry(point, geometry).
ApplyGeometry ==
    /\ gFn = "none"
    /\ gFn' = "isPointInGeometry"
    /\ gOut' = Bool(isPointInGeometry(gPoint, gGeom))
    /\ UNCHANGED <<gPoint, gGeom>>
    /\ UNCHANGED <<communityAreasCache, lastCommunityLoadTime, lastResponseBody,
                   now, ticks, pc, req, result, refresh, outer, parkVars, libVars>>

NextGeo == ApplyPolygon \/ ApplyGeometry

SpecGeo == InitGeo /\ [][NextGeo]_vars

(***************************************************************************)
(* The coordinate validators.                                              *)
(***************************************************************************)

\* The literals of isValidChicagoCoordinates, in tenths of a degree.
SouthTenths == 416
NorthTenths == 421
WestTenths == -883
EastTenths == -875

\* A coordinate of the model in tenths of a degree.
AbsLat(lat) == SouthTenths + lat
AbsLng(lng) == WestTenths + lng

isValidChicagoCoordinates_exclusiveNorth(lat, lng) ==
    /\ AbsLat(lat) >= SouthTenths
    /\ AbsLat(lat) < NorthTenths
    /\ AbsLng(lng) >= WestTenths
    /\ AbsLng(lng) <= EastTenths

\* lat >= 41.6 && lat <= 42.1 && lng >= -88.3 && lng <= -87.5
isValidChicagoCoordinates(lat, lng) ==
    /\ AbsLat(lat) >= SouthTenths
    /\ AbsLat(lat) <= NorthTenths
    /\ AbsLng(lng) >= WestTenths
    /\ AbsLng(lng) <= EastTenths

\* ChicagoParkService.isValidCoordinates.  The coordinates of the model are
\* numbers, so the isNaN tests are false.
isValidCoordinates(lat, lng) ==
    /\ AbsLat(lat) >= -900 /\ AbsLat(lat) <= 900
    /\ AbsLng(lng) >= -1800 /\ AbsLng(lng) <= 1800
    /\ isValidChicagoCoordinates(lat, lng)

\* Arguments of the validators: the box, a margin around it, and values just
\* outside the envelope of latitudes and longitudes.
ValidatorLats == ((0 - ValidatorMargin)..(5 + ValidatorMargin)) \cup {-1317, 485}
ValidatorLngs == ((0 - ValidatorMargin)..(8 + ValidatorMargin)) \cup {-918, 2684}

\* gPoint holds the pair (lat, lng) the validator is applied to.
InitValid ==
    /\ communityAreasCache = <<>>
    /\ lastCommunityLoadTime = 0
    /\ lastResponseBody = [array |-> TRUE, items |-> <<>>]
    /\ now = StartTime
    /\ ticks = 0
    /\ pc = [p \in Callers |-> "absent"]
    /\ req = [p \in Callers |-> NoRequest]
    /\ result = [p \in Callers |-> Pending]
    /\ refresh = [p \in Callers |-> "none"]
    /\ outer = [p \in Callers |-> NoOuter]
    /\ InertParks
    /\ InertLib
    /\ gPoint \in ValidatorLats \X ValidatorLngs
    /\ gGeom = NoGeometry
    /\ gOut = "unset"
    /\ gFn = "none"

ApplyValidChicago ==
    /\ gFn = "none"
    /\ gFn' = "isValidChicagoCoordinates"
    /\ gOut' = Bool(isValidChicagoCoordinates(gPoint[1], gPoint[2]))
    /\ UNCHANGED <<gPoint, gGeom>>
    /\ UNCHANGED <<communityAreasCache, lastCommunityLoadTime, lastResponseBody,
                   now, ticks, pc, req, result, refresh, outer, parkVars, libVars>>

ApplyValidCoordinates ==
    /\ gFn = "none"
    /\ gFn' = "isValidCoordinates"
    /\ gOut' = Bool(isValidCoordinates(gPoint[1], gPoint[2]))
    /\ UNCHANGED <<gPoint, gGeom>>
    /\ UNCHANGED <<communityAreasCache, lastCommunityLoadTime, lastResponseBody,
                   now, ticks, pc, req, result, refresh, outer, parkVars, libVars>>

NextValid == ApplyValidChicago \/ ApplyValidCoordinates

SpecValid == InitValid /\ [][NextValid]_vars

(***************************************************************************)
(* The ring test applied to arbitrary vertex lists.                        *)
(***************************************************************************)

\* Vertices a ring is drawn from: the corners of a square, its centre and
\* the midpoint of one side.  Points lie in and around the square.
RingVertices == {<<0, 0>>, <<4, 0>>, <<4, 4>>, <<0, 4>>, <<2, 2>>, <<2, 0>>}
RingPoints == (-1..5) \X (-1..5)
AnyRings == SeqsUpTo(RingVertices, MaxRingLen)

\* The ring under test is the exterior ring of a Polygon without holes.
InitRing ==
    /\ communityAreasCache = <<>>
    /\ lastCommunityLoadTime = 0
    /\ lastResponseBody = [array |-> TRUE, items |-> <<>>]
    /\ now = StartTime
    /\ ticks = 0
    /\ pc = [p \in Callers |-> "absent"]
    /\ req = [p \in Callers |-> NoRequest]
    /\ result = [p \in Callers |-> Pending]
    /\ refresh = [p \in Callers |-> "none"]
    /\ outer = [p \in Callers |-> NoOuter]
    /\ InertParks
    /\ InertLib
    /\ gPoint \in RingPoints
    /\ gGeom \in {[type |-> "Polygon", hasCoordinates |-> TRUE, coordinates |-> <<r>>]
                    : r \in AnyRings}
    /\ gOut = "unset"
    /\ gFn = "none"

\* pointInRing(point, polygon[0]).
ApplyRing ==
    /\ gFn = "none"
    /\ gGeom.type = "Polygon"
    /\ gFn' = "pointInRing"
    /\ gOut' = Bool(pointInRing(gPoint, gGeom.coordinates[1]))
    /\ UNCHANGED <<gPoint, gGeom>>
    /\ UNCHANGED <<communityAreasCache, lastCommunityLoadTime, lastResponseBody,
                   now, ticks, pc, req, result, refresh, outer, parkVars, libVars>>

NextRing == ApplyRing \/ ApplyPolygon

SpecRing == InitRing /\ [][NextRing]_vars

(***************************************************************************)
(* Operations that wrap a classifier call: convertAPIToPark,               *)
(* getCommunityAreaForAddress, and a caller repeating its call.            *)
(***************************************************************************)

\* What extractCoordinates and geocodeAddress return: null, or coordinates.
NoCoordinates == [found |-> FALSE, lat |-> 0, lng |-> 0]
Coordinates(lat, lng) == [found |-> TRUE, lat |-> lat, lng |-> lng]

\* coords.reduce((sum, point) => sum + point[k], 0), from vertex i on.
RECURSIVE sumFrom(_, _, _)
sumFrom(coords, k, i) ==
    IF i > Len(coords) THEN 0 ELSE coords[i][k] + sumFrom(coords, k, i + 1)

\* The vertex list extractCoordinates averages: the exterior ring of a
\* Polygon, or of the first polygon of a MultiPolygon (coordinates[0]?.[0]).
centroidRing(geometry) ==
    IF geometry.type = "MultiPolygon"
    THEN IF Len(geometry.coordinates[1]) = 0 THEN <<>> ELSE geometry.coordinates[1][1]
    ELSE geometry.coordinates[1]

extractCoordinates_swapped(geometry) ==
    IF geometry.type = "undefined" \/ ~geometry.hasCoordinates
        \/ Len(geometry.coordinates) = 0 THEN NoCoordinates
    ELSE IF geometry.type \notin {"MultiPolygon", "Polygon"} THEN NoCoordinates
    ELSE LET coords == centroidRing(geometry)
         IN  IF Len(coords) = 0 THEN NoCoordinates
             ELSE Coordinates(sumFrom(coords, 1, 1) \div Len(coords),
                              sumFrom(coords, 2, 1) \div Len(coords))

\* Returns [avgLat, avgLng].  The park geometries of the model have vertex
\* sums that are multiples of the vertex count, so the quotients are exact.
extractCoordinates(geometry) ==
    IF geometry.type = "undefined" \/ ~geometry.hasCoordinates
        \/ Len(geometry.coordinates) = 0 THEN NoCoordinates
    ELSE IF geometry.type \notin {"MultiPolygon", "Polygon"} THEN NoCoordinates
    ELSE LET coords == centroidRing(geometry)
         IN  IF Len(coords) = 0 THEN NoCoordinates
             ELSE Coordinates(sumFrom(coords, 2, 1) \div Len(coords),
                              sumFrom(coords, 1, 1) \div Len(coords))

\* the_geom of the park records of the parks feed.
ParkGeometryNames ==
    {"parkWestEast", "parkEast", "parkNorth", "parkFar", "noRings", "point", "undefined"}

\* Coordinates geocodeAddress may produce: parsed from the address text, or
\* returned by the geocoding service.
GeocodedPoints == {<<1, 3>>, <<3, 1>>}

ClassifierRequest(lat, lng) ==
    [op |-> "getCommunityAreaForCoordinates", lat |-> lat, lng |-> lng, areaNumber |-> 0]

\* convertAPIToPark after the classifier call settled: the catch block and
\* the test !communityArea both return null.
convertOutcome(r) == IF r.kind \in {"error", "null"} THEN "null" ELSE "value"

addressOutcome_uncaught(r) == IF r.kind = "error" THEN "error" ELSE "value"

\* getCommunityAreaForAddress after the classifier call settled: the catch
\* block returns null, and a null communityArea is returned in the result.
addressOutcome(r) == IF r.kind = "error" THEN "null" ELSE "value"

\* convertAPIToPark(apiPark) up to its await of the classifier call, or to
\* its return of null when there are no valid coordinates.
ConvertPark(p, g) ==
    /\ pc[p] \in {"idle", "done"}
    /\ outer[p].state # "pending"
    /\ LET c == extractCoordinates(Geometry(g))
       IN  IF ~c.found \/ ~isValidCoordinates(c.lat, c.lng)
           THEN /\ outer' = [outer EXCEPT ![p] =
                        [op |-> "convertAPIToPark", arg |-> g, state |-> "null",
                         inLat |-> c.lat, inLng |-> c.lng, lat |-> 0, lng |-> 0,
                         inner |-> Pending]]
                /\ pc' = [pc EXCEPT ![p] = "idle"]
                /\ req' = [req EXCEPT ![p] = NoRequest]
                /\ result' = [result EXCEPT ![p] = Pending]
                /\ refresh' = [refresh EXCEPT ![p] = "none"]
                /\ UNCHANGED <<communityAreasCache, lastCommunityLoadTime,
                               lastResponseBody, now, ticks>>
                /\ UNCHANGED <<libVars, geoVars, parkVars>>
           ELSE /\ Enter(p, ClassifierRequest(c.lat, c.lng))
                /\ outer' = [outer EXCEPT ![p] =
                        [op |-> "convertAPIToPark", arg |-> g, state |-> "pending",
                         inLat |-> c.lat, inLng |-> c.lng, lat |-> 0, lng |-> 0,
                         inner |-> Pending]]
                /\ UNCHANGED parkVars

\* The classifier call of convertAPIToPark has settled: the park is built
\* with coordinates and communityArea, or null is returned.
ParkReturns(p) ==
    /\ pc[p] = "done"
    /\ outer[p].op = "convertAPIToPark"
    /\ outer[p].state = "pending"
    /\ outer' = [outer EXCEPT ![p] =
            IF convertOutcome(result[p]) = "value"
            THEN [@ EXCEPT !.state = "value", !.lat = outer[p].inLat,
                           !.lng = outer[p].inLng, !.inner = result[p]]
            ELSE [@ EXCEPT !.state = "null"]]
    /\ UNCHANGED <<communityAreasCache, lastCommunityLoadTime, lastResponseBody,
                   now, ticks, pc, req, result, refresh>>
    /\ UNCHANGED <<libVars, geoVars, parkVars>>

\* getCommunityAreaForAddress(address) up to its await of geocodeAddress.
AddressCall(p) ==
    /\ pc[p] \in {"idle", "done"}
    /\ outer[p].state # "pending"
    /\ outer' = [outer EXCEPT ![p] =
            [op |-> "getCommunityAreaForAddress", arg |-> "address", state |-> "pending",
             inLat |-> 0, inLng |-> 0, lat |-> 0, lng |-> 0, inner |-> Pending]]
    /\ pc' = [pc EXCEPT ![p] = "geocoding"]
    /\ req' = [req EXCEPT ![p] = NoRequest]
    /\ result' = [result EXCEPT ![p] = Pending]
    /\ refresh' = [refresh EXCEPT ![p] = "none"]
    /\ UNCHANGED <<communityAreasCache, lastCommunityLoadTime, lastResponseBody, now, ticks>>
    /\ UNCHANGED <<libVars, geoVars, parkVars>>

\* geocodeAddress resolves with null: the service is unreachable or answers
\* with an error status or with no result, or anything inside it throws.
GeocodeFails(p) ==
    /\ pc[p] = "geocoding"
    /\ outer' = [outer EXCEPT ![p].state = "null"]
    /\ pc' = [pc EXCEPT ![p] = "idle"]
    /\ UNCHANGED <<communityAreasCache, lastCommunityLoadTime, lastResponseBody,
                   now, ticks, req, result, refresh>>
    /\ UNCHANGED <<libVars, geoVars, parkVars>>

\* geocodeAddress resolves with coordinates; the classifier is called.
GeocodeResolves(p, q) ==
    /\ pc[p] = "geocoding"
    /\ Enter(p, ClassifierRequest(q[1], q[2]))
    /\ outer' = [outer EXCEPT ![p].inLat = q[1], ![p].inLng = q[2]]
    /\ UNCHANGED parkVars

\* The classifier call of getCommunityAreaForAddress has settled.
AddressReturns(p) ==
    /\ pc[p] = "done"
    /\ outer[p].op = "getCommunityAreaForAddress"
    /\ outer[p].state = "pending"
    /\ outer' = [outer EXCEPT ![p] =
            IF addressOutcome(result[p]) = "value"
            THEN [@ EXCEPT !.state = "value", !.lat = outer[p].inLat,
                           !.lng = outer[p].inLng, !.inner = result[p]]
            ELSE [@ EXCEPT !.state = addressOutcome(result[p])]]
    /\ UNCHANGED <<communityAreasCache, lastCommunityLoadTime, lastResponseBody,
                   now, ticks, pc, req, result, refresh>>
    /\ UNCHANGED <<libVars, geoVars, parkVars>>

\* A caller whose classifier call has settled calls the classifier again
\* with the same coordinate; the first call's result is kept for comparison.
CallAgain(p) ==
    /\ pc[p] = "done"
    /\ outer[p].state # "pending"
    /\ req[p].op = "getCommunityAreaForCoordinates"
    /\ Enter(p, req[p])
    /\ outer' = [outer EXCEPT ![p] =
            [op |-> "again", arg |-> "", state |-> "second",
             inLat |-> req[p].lat, inLng |-> req[p].lng, lat |-> 0, lng |-> 0,
             inner |-> result[p]]]
    /\ UNCHANGED parkVars

\* Feeds of the client check: complete records only.
ClientFeeds ==
    {[array |-> FALSE, items |-> <<>>]}
        \cup {[array |-> TRUE, items |-> s] :
                s \in SeqsUpTo({ Area("west", Str(<<"1">>), Str(<<"W">>)),
                                 Area("east", Str(<<"2">>), Str(<<"E">>)),
                                 Area("east", Str(<<"0">>), Str(<<"Z">>)) }, MaxFeedLen)}

\* One caller; every classifier call is made by a wrapping operation.
NextClients ==
    \/ \E g \in ParkGeometryNames : ConvertPark("c1", g)
    \/ ParkReturns("c1")
    \/ AddressCall("c1")
    \/ GeocodeFails("c1")
    \/ \E q \in GeocodedPoints : GeocodeResolves("c1", q)
    \/ AddressReturns("c1")
    \/ CallAgain("c1")
    \/ FetchFails("c1")
    \/ FetchResolves("c1")
    \/ JsonFails("c1")
    \/ \E data \in ClientFeeds : JsonResolves("c1", data)
    \/ Continue("c1")
    \/ \E d \in {CACHE_DURATION, CACHE_DURATION + 1} : Tick(d)

SpecClients == Init /\ [][NextClients]_vars

(***************************************************************************)
(* correctParkCommunityArea and validateParkLocation.                      *)
(***************************************************************************)

\* Parks passed to correctParkCommunityArea: a coordinate and a stored area.
CorrectionParks ==
    {Park("chicago-park-1", q[1], q[2], a) : q \in {<<1, 3>>, <<1, 5>>, <<3, 1>>}, a \in {1, 2}}

\* park.communityArea = actualCommunityArea; return park
correctOutcome_inPlace(park, actual) ==
    IF actual.kind = "number" /\ actual.n # park.communityArea
    THEN [park |-> [park EXCEPT !.communityArea = actual.n],
          returned |-> [park EXCEPT !.communityArea = actual.n], same |-> TRUE]
    ELSE [park |-> park, returned |-> park, same |-> TRUE]

\* Lines 85-93: a new object {...park, communityArea: actualCommunityArea}
\* when the classifier's result is truthy and differs, else the park passed.
correctOutcome(park, actual) ==
    IF actual.kind = "number" /\ actual.n # park.communityArea
    THEN [park |-> park,
          returned |-> [park EXCEPT !.communityArea = actual.n], same |-> FALSE]
    ELSE [park |-> park, returned |-> park, same |-> TRUE]

\* Lines 72-78: actualCommunityArea !== park.communityArea returns false.
validOutcome(park, actual) ==
    IF actual.kind = "number" /\ actual.n = park.communityArea THEN "true" ELSE "false"

\* correctParkCommunityArea(park) up to its await of the classifier call.
CorrectEnter(p, park) ==
    /\ pc[p] \in {"idle", "done"}
    /\ outer[p].state # "pending"
    /\ job[p].state # "pending"
    /\ Enter(p, ClassifierRequest(park.lat, park.lng))
    /\ job' = [job EXCEPT ![p] =
            [NoJob EXCEPT !.op = "correctParkCommunityArea", !.state = "pending",
                          !.original = park, !.park = park]]
    /\ outer' = [outer EXCEPT ![p] = NoOuter]

\* A caller invokes correctParkCommunityArea directly.
CorrectPark(p, park) ==
    /\ CorrectEnter(p, park)
    /\ UNCHANGED svcVars

\* The classifier call of correctParkCommunityArea has settled; a rejection
\* is not caught.
CorrectReturns(p) ==
    /\ pc[p] = "done"
    /\ job[p].op = "correctParkCommunityArea"
    /\ job[p].state = "pending"
    /\ job' = [job EXCEPT ![p] =
            IF result[p].kind = "error" THEN [@ EXCEPT !.state = "error"]
            ELSE LET o == correctOutcome(job[p].park, result[p])
                 IN  [@ EXCEPT !.state = "value", !.park = o.park,
                               !.returned = o.returned, !.same = o.same]]
    /\ UNCHANGED <<communityAreasCache, lastCommunityLoadTime, lastResponseBody,
                   now, ticks, pc, req, result, refresh, outer>>
    /\ UNCHANGED <<libVars, geoVars, svcVars>>

\* validateParkLocation(park) on the park correctParkCommunityArea returned,
\* up to its await of the classifier call.
ValidatePark(p) ==
    /\ pc[p] = "done"
    /\ job[p].op = "correctParkCommunityArea"
    /\ job[p].state = "value"
    /\ Enter(p, ClassifierRequest(job[p].returned.lat, job[p].returned.lng))
    /\ job' = [job EXCEPT ![p] =
            [NoJob EXCEPT !.op = "validateParkLocation", !.state = "pending",
                          !.original = job[p].returned, !.park = job[p].returned]]
    /\ UNCHANGED <<outer, svcVars>>

\* The classifier call of validateParkLocation has settled.
ValidateReturns(p) ==
    /\ pc[p] = "done"
    /\ job[p].op = "validateParkLocation"
    /\ job[p].state = "pending"
    /\ job' = [job EXCEPT ![p] =
            IF result[p].kind = "error" THEN [@ EXCEPT !.state = "error"]
            ELSE [@ EXCEPT !.state = "value", !.valid = validOutcome(job[p].park, result[p])]]
    /\ UNCHANGED <<communityAreasCache, lastCommunityLoadTime, lastResponseBody,
                   now, ticks, pc, req, result, refresh, outer>>
    /\ UNCHANGED <<libVars, geoVars, svcVars>>

NextCorrect ==
    \/ \E park \in CorrectionParks : CorrectPark("c1", park)
    \/ CorrectReturns("c1")
    \/ ValidatePark("c1")
    \/ ValidateReturns("c1")
    \/ FetchFails("c1")
    \/ FetchResolves("c1")
    \/ JsonFails("c1")
    \/ \E data \in ClientFeeds : JsonResolves("c1", data)
    \/ Continue("c1")
    \/ \E d \in {CACHE_DURATION, CACHE_DURATION + 1} : Tick(d)

SpecCorrect == Init /\ [][NextCorrect]_vars

(***************************************************************************)
(* ChicagoParkService: getAllParks, loadParksFromAPI and                   *)
(* validateAndCorrectParkLocations.  The conversions of one load run       *)
(* concurrently, each in its own classifier call; the corrections of       *)
(* validateAndCorrectParkLocations run one after another.  The runtime     *)
(* runs every continuation that is ready before it delivers the next       *)
(* event: a new call, a network response, an advance of the clock.         *)
(***************************************************************************)
ParksCACHE_DURATION == 30 * 60 * 1000

\* The classifier calls of the conversions of one load, in record order,
\* and the classifier call of the correction loop.
ParkSlots == <<"c1", "c2">>
CorrectionSlot == "c3"
ParkCallers == {"c1", "c2", "c3"}

\* Responses of the parks API, each record named by its geometry: a park
\* in area east, one in both areas, one in no area and one outside the
\* Chicago box.  A response carries at most as many records as there are
\* conversion slots.
ParkFeeds ==
    { <<>>,
      <<"parkEast">>,
      <<"parkWestEast", "parkNorth">>,
      <<"parkFar", "parkEast">> }

\* Feeds of the community-area source during the park check.
ParkAreaFeeds ==
    { [array |-> FALSE, items |-> <<>>],
      [array |-> TRUE,
       items |-> <<Area("west", Str(<<"1">>), Str(<<"W">>)),
                   Area("east", Str(<<"2">>), Str(<<"E">>))>>],
      [array |-> TRUE,
       items |-> <<Area("east", Str(<<"2">>), Str(<<"E">>)),
                   Area("west", Str(<<"1">>), Str(<<"W">>))>>],
      [array |-> TRUE, items |-> <<>>] }

shouldRefreshCache ==
    now - lastFetchTime > ParksCACHE_DURATION \/ Len(parksCache) = 0

UsedSlots(apiData) == {ParkSlots[k] : k \in 1..Len(apiData)}

RecordOf(apiData, p) == apiData[CHOOSE k \in 1..Len(apiData) : ParkSlots[k] = p]

Loading(s) == svc[s].pc \in {"fetching", "converting"}

\* The park convertAPIToPark builds from a settled conversion.
ParkOf(o) == Park(o.arg, o.lat, o.lng, o.inner.n)

RECURSIVE filterNotNull_keepsNull(_, _)
filterNotNull_keepsNull(apiData, k) ==
    IF k > Len(apiData) THEN <<>>
    ELSE LET o == outer[ParkSlots[k]]
         IN  <<Park(o.arg, o.inLat, o.inLng, 0)>> \o filterNotNull_keepsNull(apiData, k + 1)

\* convertedParks.filter(park => park !== null), from record k on.
RECURSIVE filterNotNull(_, _)
filterNotNull(apiData, k) ==
    IF k > Len(apiData) THEN <<>>
    ELSE LET o == outer[ParkSlots[k]]
         IN  (IF o.state = "value" THEN <<ParkOf(o)>> ELSE <<>>)
                 \o filterNotNull(apiData, k + 1)

\* The calls of the slots in used have been awaited: nothing refers to
\* their promises any more.
Settled(used) ==
    /\ pc' = [p \in DOMAIN pc |-> IF p \in used THEN "idle" ELSE pc[p]]
    /\ req' = [p \in DOMAIN req |-> IF p \in used THEN NoRequest ELSE req[p]]
    /\ result' = [p \in DOMAIN result |-> IF p \in used THEN Pending ELSE result[p]]
    /\ refresh' = [p \in DOMAIN refresh |-> IF p \in used THEN "none" ELSE refresh[p]]
    /\ outer' = [p \in DOMAIN outer |-> IF p \in used THEN NoOuter ELSE outer[p]]

InitParks ==
    /\ communityAreasCache = <<>>
    /\ lastCommunityLoadTime = 0
    /\ lastResponseBody = [array |-> TRUE, items |-> <<>>]
    /\ now = StartTime
    /\ ticks = 0
    /\ pc = [p \in ParkCallers |-> "idle"]
    /\ req = [p \in ParkCallers |-> NoRequest]
    /\ result = [p \in ParkCallers |-> Pending]
    /\ refresh = [p \in ParkCallers |-> "none"]
    /\ outer = [p \in ParkCallers |-> NoOuter]
    /\ job = [p \in ParkCallers |-> NoJob]
    /\ parksCache = <<>>
    /\ lastFetchTime = 0
    /\ svc = [s \in Services |-> NoService]
    /\ InertLib
    /\ gPoint = <<0, 0>>
    /\ gGeom = NoGeometry
    /\ gOut = "unset"
    /\ gFn = "none"

\* No continuation is ready: every call waits for the network or has
\* finished.
Quiescent ==
    /\ \A p \in DOMAIN pc :
            /\ pc[p] # "ensured"
            /\ pc[p] = "done" =>
                    /\ ~(outer[p].op = "convertAPIToPark" /\ outer[p].state = "pending")
                    /\ ~(job[p].op = "correctParkCommunityArea" /\ job[p].state = "pending")
    /\ svc["validateAndCorrectParkLocations"].pc \notin {"returned", "correcting"}
            \/ /\ svc["validateAndCorrectParkLocations"].pc = "correcting"
               /\ job[CorrectionSlot].state = "pending"
    /\ \A s \in Services :
            svc[s].pc = "converting" =>
                \E p \in UsedSlots(svc[s].apiData) : outer[p].state = "pending"

\* return this.parksCache of getAllParks, and the await that receives it:
\* the caller of getAllParks is done, validateAndCorrectParkLocations has
\* its allParks.
Returned(s, cache) ==
    IF s = "getAllParks"
    THEN [NoService EXCEPT !.pc = "done"]
    ELSE [NoService EXCEPT !.pc = "returned", !.allParks = cache]

\* getAllParks(), called directly or as the first statement of
\* validateAndCorrectParkLocations, up to the await of fetch in
\* loadParksFromAPI, or to its return when the cache is fresh.  A call that
\* refreshes is made while no other refresh is running.
GetAllParks(s) ==
    /\ Quiescent
    /\ svc[s].pc \in {"idle", "done", "failed"}
    /\ shouldRefreshCache => \A t \in Services : ~Loading(t)
    /\ svc' = [svc EXCEPT ![s] =
            IF shouldRefreshCache
            THEN [NoService EXCEPT !.pc = "fetching"]
            ELSE Returned(s, parksCache)]
    /\ UNCHANGED <<communityAreasCache, lastCommunityLoadTime, lastResponseBody,
                   now, ticks, pc, req, result, refresh, outer, job,
                   parksCache, lastFetchTime>>
    /\ UNCHANGED <<libVars, geoVars, libVars>>

\* fetch rejects, the response is not ok, or response.json() rejects: the
\* catch block of loadParksFromAPI logs, and getAllParks returns the cache.
ParksFetchFails(s) ==
    /\ Quiescent
    /\ svc[s].pc = "fetching"
    /\ svc' = [svc EXCEPT ![s] = Returned(s, parksCache)]
    /\ UNCHANGED <<communityAreasCache, lastCommunityLoadTime, lastResponseBody,
                   now, ticks, pc, req, result, refresh, outer, job,
                   parksCache, lastFetchTime>>
    /\ UNCHANGED <<libVars, geoVars, libVars>>

\* response.json() resolves with apiData; apiData.map starts one
\* convertAPIToPark per record, each running to its first await.
ParksResponds(s, apiData) ==
    /\ Quiescent
    /\ svc[s].pc = "fetching"
    /\ \A p \in UsedSlots(apiData) : pc[p] \in {"idle", "done"} /\ outer[p].state # "pending"
    /\ LET used == UsedSlots(apiData)
           c(p) == extractCoordinates(Geometry(RecordOf(apiData, p)))
           valid(p) == c(p).found /\ isValidCoordinates(c(p).lat, c(p).lng)
       IN  /\ outer' = [p \in DOMAIN outer |->
                   IF p \in used
                   THEN [op |-> "convertAPIToPark", arg |-> RecordOf(apiData, p),
                         state |-> IF valid(p) THEN "pending" ELSE "null",
                         inLat |-> c(p).lat, inLng |-> c(p).lng, lat |-> 0, lng |-> 0,
                         inner |-> Pending]
                   ELSE outer[p]]
           /\ pc' = [p \in DOMAIN pc |->
                   IF p \notin used THEN pc[p]
                   ELSE IF ~valid(p) THEN "idle"
                   ELSE IF shouldRefreshCommunityCache THEN "fetching" ELSE "ensured"]
           /\ req' = [p \in DOMAIN req |->
                   IF p \notin used THEN req[p]
                   ELSE IF ~valid(p) THEN NoRequest
                   ELSE ClassifierRequest(c(p).lat, c(p).lng)]
           /\ result' = [p \in DOMAIN result |-> IF p \in used THEN Pending ELSE result[p]]
           /\ refresh' = [p \in DOMAIN refresh |->
                   IF p \notin used THEN refresh[p]
                   ELSE IF valid(p) /\ shouldRefreshCommunityCache THEN "inflight" ELSE "none"]
    /\ svc' = [svc EXCEPT ![s].pc = "converting", ![s].apiData = apiData]
    /\ UNCHANGED <<communityAreasCache, lastCommunityLoadTime, lastResponseBody,
                   now, ticks, job, parksCache, lastFetchTime>>
    /\ UNCHANGED <<libVars, geoVars, libVars>>

\* Promise.all has resolved: lines 60-62 assign the cache and the fetch
\* time, and getAllParks returns the cache.
ParksAssign(s) ==
    /\ svc[s].pc = "converting"
    /\ \A p \in UsedSlots(svc[s].apiData) :
            outer[p].op = "convertAPIToPark" /\ outer[p].state \in {"value", "null"}
    /\ parksCache' = filterNotNull(svc[s].apiData, 1)
    /\ lastFetchTime' = now
    /\ svc' = [svc EXCEPT ![s] = Returned(s, parksCache')]
    /\ Settled(UsedSlots(svc[s].apiData))
    /\ UNCHANGED <<communityAreasCache, lastCommunityLoadTime, lastResponseBody,
                   now, ticks, job>>
    /\ UNCHANGED <<libVars, geoVars, libVars>>

V == "validateAndCorrectParkLocations"

\* Lines 36-39 after the last iteration: the cache is assigned the
\* corrected list, which is returned.
LoopEnds(correctedParks) ==
    /\ parksCache' = correctedParks
    /\ svc' = [svc EXCEPT ![V] = [NoService EXCEPT !.pc = "done"]]
    /\ Settled({CorrectionSlot})
    /\ job' = [job EXCEPT ![CorrectionSlot] = NoJob]
    /\ UNCHANGED <<communityAreasCache, lastCommunityLoadTime, lastResponseBody,
                   now, ticks, lastFetchTime>>
    /\ UNCHANGED <<libVars, geoVars, libVars>>

\* The loop of validateAndCorrectParkLocations between two awaits: the
\* corrected park is pushed, and the next correction starts or the loop ends.
LoopStep ==
    /\ \/ svc[V].pc = "returned"
       \/ /\ svc[V].pc = "correcting"
          /\ job[CorrectionSlot].op = "correctParkCommunityArea"
          /\ job[CorrectionSlot].state = "value"
    /\ LET correctedParks ==
               IF svc[V].pc = "returned" THEN <<>>
               ELSE Append(svc[V].correctedParks, job[CorrectionSlot].returned)
       IN  IF Len(correctedParks) < Len(svc[V].allParks)
           THEN /\ CorrectEnter(CorrectionSlot, svc[V].allParks[Len(correctedParks) + 1])
                /\ svc' = [svc EXCEPT ![V].pc = "correcting",
                                      ![V].correctedParks = correctedParks]
                /\ UNCHANGED <<parksCache, lastFetchTime>>
           ELSE LoopEnds(correctedParks)

\* correctParkCommunityArea rejected: validateAndCorrectParkLocations
\* rejects and assigns nothing.
LoopThrows ==
    /\ svc[V].pc = "correcting"
    /\ job[CorrectionSlot].op = "correctParkCommunityArea"
    /\ job[CorrectionSlot].state = "error"
    /\ svc' = [svc EXCEPT ![V] = [NoService EXCEPT !.pc = "failed"]]
    /\ Settled({CorrectionSlot})
    /\ job' = [job EXCEPT ![CorrectionSlot] = NoJob]
    /\ UNCHANGED <<communityAreasCache, lastCommunityLoadTime, lastResponseBody,
                   now, ticks, parksCache, lastFetchTime>>
    /\ UNCHANGED <<libVars, geoVars, libVars>>

\* Events of the community-area fetches and of the clock, delivered when
\* no continuation is ready.
AreaFetchFails(p) == Quiescent /\ FetchFails(p)
AreaFetchResolves(p) == Quiescent /\ FetchResolves(p)
AreaJsonFails(p) == Quiescent /\ JsonFails(p)
AreaJsonResolves(p, data) == Quiescent /\ JsonResolves(p, data)
ParksTick(d) == Quiescent /\ Tick(d)

NextParks ==
    \/ \E s \in Services : GetAllParks(s)
    \/ \E s \in Services : ParksFetchFails(s)
    \/ \E s \in Services, apiData \in ParkFeeds : ParksResponds(s, apiData)
    \/ \E s \in Services : ParksAssign(s)
    \/ LoopStep
    \/ LoopThrows
    \/ \E p \in ParkCallers : ParkReturns(p)
    \/ \E p \in ParkCallers : CorrectReturns(p)
    \/ \E p \in ParkCallers : AreaFetchFails(p)
    \/ \E p \in ParkCallers : AreaFetchResolves(p)
    \/ \E p \in ParkCallers : AreaJsonFails(p)
    \/ \E p \in ParkCallers, data \in ParkAreaFeeds : AreaJsonResolves(p, data)
    \/ \E p \in ParkCallers : Continue(p)
    \/ \E d \in {ParksCACHE_DURATION + 1, CACHE_DURATION + 1} : ParksTick(d)

SpecParks == InitParks /\ [][NextParks]_vars

(***************************************************************************)
(* Recovery: one caller that calls the classifier again and again, and a   *)
(* source that answers with a feed in the end.                             *)
(***************************************************************************)
Retry == \E r \in Requests : r.op = "getCommunityAreaForCoordinates" /\ Call("c1", r)

SourceAnswers == \E data \in ClientFeeds : data.array /\ JsonResolves("c1", data)

NextRecovery ==
    \/ Retry
    \/ FetchFails("c1")
    \/ FetchResolves("c1")
    \/ JsonFails("c1")
    \/ \E data \in ClientFeeds : JsonResolves("c1", data)
    \/ Continue("c1")
    \/ \E d \in {CACHE_DURATION, CACHE_DURATION + 1} : Tick(d)

\* The caller keeps calling and the runtime resumes the call after its
\* await; a fetch that is attempted again and again is answered, and a
\* body that is read again and again is a feed.
SpecRecovery ==
    /\ Init
    /\ [][NextRecovery]_vars
    /\ WF_vars(Retry)
    /\ WF_vars(Continue("c1"))
    /\ SF_vars(FetchResolves("c1"))
    /\ SF_vars(SourceAnswers)

(***************************************************************************)
(* geo-utils: calculateRingArea and fixPolygonWinding, on integer          *)
(* coordinates [x, y].                                                     *)
(***************************************************************************)
WindingVertices == {<<0, 0>>, <<2, 0>>, <<2, 2>>, <<0, 2>>, <<1, 1>>}

WindingRings == UNION {[1..n -> WindingVertices] : n \in 1..MaxRingLen}

\* A polygon of the check: one ring as the exterior ring, or as the hole of
\* a closed counterclockwise square.
WindingPolygons ==
    {<<ring>> : ring \in WindingRings}
        \cup {<<Rect(0, 0, 2, 2), ring>> : ring \in WindingRings}

\* The loop of calculateRingArea from index i on; ring[i] of the code is
\* ring[i + 1] here.
RECURSIVE ringAreaLoop(_, _, _)
ringAreaLoop(ring, i, n) ==
    IF i >= n THEN 0
    ELSE LET j == (i + 1) % n
         IN  ring[i + 1][1] * ring[j + 1][2] - ring[j + 1][1] * ring[i + 1][2]
                 + ringAreaLoop(ring, i + 1, n)

\* calculateRingArea(ring), counted in halves of a unit square: the value
\* returned, area / 2, is this number of halves.
calculateRingArea(ring) == ringAreaLoop(ring, 0, Len(ring) - 1)

\* ring.slice().reverse()
reverse(ring) == [i \in 1..Len(ring) |-> ring[Len(ring) - i + 1]]

\* coordinates.map((ring, index) => ...): index 0 of the code is 1 here.
fixPolygonWinding(coordinates) ==
    [index \in 1..Len(coordinates) |->
        LET ring == coordinates[index]
            isClockwise == calculateRingArea(ring) < 0
            shouldBeClockwise == index > 1
        IN  IF isClockwise # shouldBeClockwise THEN reverse(ring) ELSE ring]

InitWinding ==
    /\ communityAreasCache = <<>>
    /\ lastCommunityLoadTime = 0
    /\ lastResponseBody = [array |-> TRUE, items |-> <<>>]
    /\ now = StartTime
    /\ ticks = 0
    /\ pc = [p \in Callers |-> "absent"]
    /\ req = [p \in Callers |-> NoRequest]
    /\ result = [p \in Callers |-> Pending]
    /\ refresh = [p \in Callers |-> "none"]
    /\ outer = [p \in Callers |-> NoOuter]
    /\ InertParks
    /\ wIn \in WindingPolygons
    /\ wOut = <<>>
    /\ wTwice = <<>>
    /\ wFn = "none"
    /\ rows = <<>>
    /\ imp = NoImport
    /\ gPoint = <<0, 0>>
    /\ gGeom = NoGeometry
    /\ gOut = "unset"
    /\ gFn = "none"

\* normalizeGeoJSON applies fixPolygonWinding to the coordinates of a
\* Polygon; a second normalisation applies it to the result.
ApplyWinding ==
    /\ wFn = "none"
    /\ wOut' = fixPolygonWinding(wIn)
    /\ wTwice' = fixPolygonWinding(wOut')
    /\ wFn' = "fixPolygonWinding"
    /\ UNCHANGED <<wIn, rows, imp>>
    /\ UNCHANGED <<communityAreasCache, lastCommunityLoadTime, lastResponseBody,
                   now, ticks, pc, req, result, refresh, outer, parkVars, geoVars>>

SpecWinding == InitWinding /\ [][ApplyWinding]_vars

(***************************************************************************)
(* The import route: importChicagoPortalCommunities over the table         *)
(* community_areas.  Coordinates [lng, lat] are in ten-thousandths of a    *)
(* degree.                                                                 *)
(***************************************************************************)
BoundsNorth == 420677
BoundsSouth == 416200
BoundsEast == -875044
BoundsWest == -879073

checkCoordinate(c) ==
    /\ c[1] >= BoundsWest
    /\ c[1] <= BoundsEast
    /\ c[2] >= BoundsSouth
    /\ c[2] <= BoundsNorth

NullGeometry == [type |-> "null", coordinates |-> <<>>]

\* validateChicagoBounds(geometry): every coordinate of every ring of a
\* Polygon is inside the bounds; a geometry of null throws inside the try
\* block, and the catch block returns false.
validateChicagoBounds(geometry) ==
    IF geometry.type = "Polygon"
    THEN \A k \in 1..Len(geometry.coordinates) :
            \A i \in 1..Len(geometry.coordinates[k]) :
                checkCoordinate(geometry.coordinates[k][i])
    ELSE FALSE

InsideGeometry ==
    [type |-> "Polygon",
     coordinates |-> << << <<-877000, 418000>>, <<-876000, 418000>>,
                           <<-876000, 419000>>, <<-877000, 418000>> >> >>]

OutsideGeometry ==
    [type |-> "Polygon",
     coordinates |-> << << <<-877000, 418000>>, <<-876000, 418000>>,
                           <<-876000, 421000>>, <<-877000, 418000>> >> >>]

\* feature.properties: null, or an object with area_numbe (a text the
\* database can or cannot read as an integer) and community.
NullProperties == [object |-> FALSE, integer |-> FALSE, area_numbe |-> 0, community |-> ""]

Properties(n, name) ==
    [object |-> TRUE, integer |-> TRUE, area_numbe |-> n, community |-> name]

NotANumber(name) ==
    [object |-> TRUE, integer |-> FALSE, area_numbe |-> 0, community |-> name]

Feature(g, props) == [geometry |-> g, properties |-> props]

ImportFeatures ==
    { Feature(InsideGeometry, Properties(1, "A")),
      Feature(InsideGeometry, Properties(1, "B")),
      Feature(InsideGeometry, Properties(2, "C")),
      Feature(OutsideGeometry, Properties(2, "C")),
      Feature(NullGeometry, Properties(3, "D")),
      Feature(InsideGeometry, NotANumber("E")),
      Feature(InsideGeometry, NullProperties) }

ImportFeeds == SeqsUpTo(ImportFeatures, MaxImportLen)

\* .where(eq(communityAreas.areaNumber, n)).limit(1)
existing(n) == {i \in 1..Len(rows) : rows[i].areaNumber = n}

InitImport ==
    /\ communityAreasCache = <<>>
    /\ lastCommunityLoadTime = 0
    /\ lastResponseBody = [array |-> TRUE, items |-> <<>>]
    /\ now = StartTime
    /\ ticks = 0
    /\ pc = [p \in Callers |-> "absent"]
    /\ req = [p \in Callers |-> NoRequest]
    /\ result = [p \in Callers |-> Pending]
    /\ refresh = [p \in Callers |-> "none"]
    /\ outer = [p \in Callers |-> NoOuter]
    /\ InertParks
    /\ InertLib
    /\ gPoint = <<0, 0>>
    /\ gGeom = NoGeometry
    /\ gOut = "unset"
    /\ gFn = "none"

ImportUnchanged ==
    /\ UNCHANGED <<wIn, wOut, wTwice, wFn>>
    /\ UNCHANGED <<communityAreasCache, lastCommunityLoadTime, lastResponseBody,
                   now, ticks, pc, req, result, refresh, outer, parkVars, geoVars>>

\* POST with dataType chicago-portal-communities, up to the await of fetch;
\* a later POST runs the import again.
ImportStart ==
    /\ imp.pc \in {"idle", "responded", "failed"}
    /\ imp.run < MaxRuns
    /\ imp' = [NoImport EXCEPT !.pc = "fetching", !.features = imp.features,
                               !.run = imp.run + 1, !.rowsBefore = Len(rows),
                               !.again = imp.again \/ imp.fetched,
                               !.dbFailed = imp.dbFailed]
    /\ UNCHANGED rows
    /\ ImportUnchanged

\* fetch rejects, the response is not ok, or response.json() rejects: the
\* function throws, and POST answers with status 500.
ImportFetchFails ==
    /\ imp.pc = "fetching"
    /\ imp' = [imp EXCEPT !.pc = "failed"]
    /\ UNCHANGED rows
    /\ ImportUnchanged

\* response.json() resolves with the feed; a later run receives the feed of
\* the run before.
ImportResponds(feed) ==
    /\ imp.pc = "fetching"
    /\ imp.again => feed = imp.features
    /\ imp' = [imp EXCEPT !.pc = "looping", !.features = feed, !.fetched = TRUE]
    /\ UNCHANGED rows
    /\ ImportUnchanged

\* One iteration of the loop of lines 52-100.  A feature outside the bounds
\* is skipped.  With properties of null, reading feature.properties.area_numbe
\* throws, and so does feature.properties.community in the catch block: the
\* function throws.  A statement the database refuses (area_numbe is no
\* integer, the connection fails, the unique constraint) throws into the
\* catch block, which records an error.  Otherwise the row with the area
\* number is updated, or a row is inserted.
ProcessFeature(dbFails) ==
    /\ imp.pc = "looping"
    /\ imp.index < Len(imp.features)
    /\ LET feature == imp.features[imp.index + 1]
           props == feature.properties
       IN  IF ~validateChicagoBounds(feature.geometry)
           THEN /\ imp' = [imp EXCEPT !.skipped = @ + 1, !.index = @ + 1]
                /\ UNCHANGED rows
           ELSE IF ~props.object
           THEN /\ imp' = [imp EXCEPT !.pc = "failed"]
                /\ UNCHANGED rows
           ELSE IF ~props.integer \/ dbFails
           THEN /\ imp' = [imp EXCEPT !.errors = Append(@, props.community),
                                      !.index = @ + 1,
                                      !.dbFailed = @ \/ dbFails]
                /\ UNCHANGED rows
           ELSE /\ rows' =
                    IF existing(props.area_numbe) # {}
                    THEN [i \in 1..Len(rows) |->
                            IF rows[i].areaNumber = props.area_numbe
                            THEN [rows[i] EXCEPT !.name = props.community]
                            ELSE rows[i]]
                    ELSE Append(rows, [areaNumber |-> props.area_numbe,
                                       name |-> props.community])
                /\ imp' = [imp EXCEPT !.imported = @ + 1, !.index = @ + 1]
    /\ ImportUnchanged

\* The loop has ended: the response carries imported, skipped and errors.
ImportReturns ==
    /\ imp.pc = "looping"
    /\ imp.index = Len(imp.features)
    /\ imp' = [imp EXCEPT !.pc = "responded"]
    /\ UNCHANGED rows
    /\ ImportUnchanged

NextImport ==
    \/ ImportStart
    \/ ImportFetchFails
    \/ \E feed \in ImportFeeds : ImportResponds(feed)
    \/ \E dbFails \in BOOLEAN : ProcessFeature(dbFails)
    \/ ImportReturns

SpecImport == InitImport /\ [][NextImport]_vars

(***************************************************************************)
(* Properties.                                                             *)
(***************************************************************************)

\* The point the containment tests are run on for a classifier request.
PointOf(r) == <<r.lng, r.lat>>

\* Indices of the cached records whose geometry contains the point.
Containing(cache, point) ==
    {i \in 1..Len(cache) : isPointInGeometry(point, Geometry(cache[i].the_geom))}

Least(S) == CHOOSE i \in S : \A j \in S : i <= j

IsClassify(p) == req[p].op = "getCommunityAreaForCoordinates"

\* C1: once the store has loaded data, a refresh that fails does not fail the
\* lookup: the classifier call completes with the result computed from the
\* records still cached.
StaleServesOnFailure ==
    \A p \in Callers :
        (/\ pc[p] = "done"
         /\ IsClassify(p)
         /\ refresh[p] = "failed"
         /\ lastCommunityLoadTime > 0
         /\ Len(communityAreasCache) > 0)
        => result[p] = classify(communityAreasCache, req[p].lat, req[p].lng)

\* C2: the step in which a refresh fails leaves communityAreasCache and
\* lastCommunityLoadTime as they were.
FailedRefreshKeepsStore ==
    [][\A p \in Callers :
        (refresh[p] = "inflight" /\ refresh'[p] = "failed")
        => UNCHANGED <<communityAreasCache, lastCommunityLoadTime>>]_vars

FailedRefreshOnLoadedStore ==
    \E p \in Callers :
        /\ pc[p] = "done"
        /\ refresh[p] = "failed"
        /\ result[p] = Rejected
        /\ Len(communityAreasCache) > 0
        /\ lastCommunityLoadTime > 0

\* C3: with no record in the store, a call whose fetch failed is rejected with
\* the error, for the classifier and for the lookup by identifier alike; it
\* does not settle with null.
EmptyStoreFailurePropagates ==
    \A p \in Callers :
        (/\ pc[p] = "done"
         /\ refresh[p] = "failed"
         /\ Len(communityAreasCache) = 0)
        => result[p] = Rejected

LookupRejectedOnEmptyStore ==
    \E p \in Callers :
        /\ pc[p] = "done"
        /\ req[p].op = "getCommunityAreaInfo"
        /\ refresh[p] = "failed"
        /\ Len(communityAreasCache) = 0
        /\ result[p] = Rejected

\* C4: when several cached records contain the point, the classifier returns
\* the identifier of the first of them in cache order.
FirstMatchWins ==
    \A p \in Callers :
        (/\ pc[p] = "done"
         /\ IsClassify(p)
         /\ refresh[p] # "failed"
         /\ Cardinality(Containing(communityAreasCache, PointOf(req[p]))) >= 2)
        => LET first == communityAreasCache[
                            Least(Containing(communityAreasCache, PointOf(req[p])))]
           IN  /\ ~parseInt(first.area_numbe).nan
               /\ result[p] = Number(parseInt(first.area_numbe).n)

\* C5: when no cached record contains the point, the classifier settles with
\* null and not with an error.
NoMatchReturnsNone ==
    \A p \in Callers :
        (/\ pc[p] = "done"
         /\ IsClassify(p)
         /\ refresh[p] # "failed"
         /\ Containing(communityAreasCache, PointOf(req[p])) = {})
        => result[p] = Null

FarPointReturnsNone ==
    \E p \in Callers :
        /\ pc[p] = "done"
        /\ IsClassify(p)
        /\ req[p].lat = 50
        /\ refresh[p] = "loaded"
        /\ Len(communityAreasCache) > 0
        /\ Containing(communityAreasCache, PointOf(req[p])) = {}
        /\ result[p] = Null

\* C6: a call issues a fetch exactly when, at the call, the cache is empty or
\* more than 60 minutes have passed since the last successful refresh; a call
\* that issues none leaves the cache and the timestamp unchanged.
RefreshPolicy ==
    [][\A p \in Callers :
        LET due == \/ Len(communityAreasCache) = 0
                   \/ now - lastCommunityLoadTime > 60 * 60 * 1000
        IN  /\ (pc[p] \in {"idle", "done"} /\ pc'[p] # pc[p])
                => /\ (pc'[p] = "fetching") <=> due
                   /\ (refresh'[p] = "inflight") <=> due
                   /\ ~due => /\ pc'[p] = "ensured"
                              /\ refresh'[p] = "none"
                              /\ UNCHANGED <<communityAreasCache, lastCommunityLoadTime>>
            /\ (refresh[p] = "none" /\ pc'[p] # pc[p] /\ pc[p] = "ensured")
                => /\ refresh'[p] = "none"
                   /\ UNCHANGED <<communityAreasCache, lastCommunityLoadTime>>]_vars

NoFetchAtExactlySixtyMinutes ==
    \E p \in Callers :
        /\ pc[p] = "done"
        /\ refresh[p] = "none"
        /\ Len(communityAreasCache) > 0
        /\ now - lastCommunityLoadTime = 60 * 60 * 1000

\* C7: at most one refresh of the store is in flight at any time.
AtMostOneRefreshInFlight ==
    Cardinality({p \in Callers : refresh[p] = "inflight"}) <= 1

\* C8: every cached record has a geometry, an identifier and a display name,
\* and the cache is the feed's records having all three, in feed order.
HasAllThree(r) ==
    /\ r.the_geom # "undefined"
    /\ r.area_numbe.defined /\ r.area_numbe.chars # <<>>
    /\ r.community.defined /\ r.community.chars # <<>>

AdmissionInvariant ==
    /\ \A i \in 1..Len(communityAreasCache) : HasAllThree(communityAreasCache[i])
    /\ lastCommunityLoadTime > 0
        => communityAreasCache = SelectSeq(lastResponseBody.items, HasAllThree)

FeedPartlyAdmitted ==
    /\ lastCommunityLoadTime > 0
    /\ Len(lastResponseBody.items) = 2
    /\ Len(communityAreasCache) = 1
    /\ ~HasAllThree(lastResponseBody.items[1])
    /\ communityAreasCache[1] = lastResponseBody.items[2]

\* C9: isPointInPolygon is true exactly when the ring test is true for the
\* exterior ring and false for every hole ring, whatever the order of the
\* hole rings.
Reordered(holes, f) == [i \in 1..Len(holes) |-> holes[f[i]]]

PolygonContainment ==
    (gFn = "isPointInPolygon" /\ gOut # "throw")
    => LET c == gGeom.coordinates
       IN  /\ (gOut = "true")
                <=> /\ pointInRing(gPoint, c[1])
                    /\ \A i \in 2..Len(c) : ~pointInRing(gPoint, c[i])
           /\ \A f \in Permutations(1..(Len(c) - 1)) :
                gOut = Bool(isPointInPolygon(gPoint, <<c[1]>> \o Reordered(Tail(c), f)))

PointInSecondHole ==
    /\ gFn = "isPointInPolygon"
    /\ gOut = "false"
    /\ Len(gGeom.coordinates) = 3
    /\ pointInRing(gPoint, gGeom.coordinates[1])
    /\ ~pointInRing(gPoint, gGeom.coordinates[2])
    /\ pointInRing(gPoint, gGeom.coordinates[3])

\* C10: on a MultiPolygon whose polygons each have an exterior ring,
\* isPointInGeometry is true exactly when isPointInPolygon is true for at
\* least one of them, and false when there is none.
MultiPolygonUnion ==
    (/\ gFn = "isPointInGeometry"
     /\ gGeom.type = "MultiPolygon"
     /\ \A i \in 1..Len(gGeom.coordinates) : Len(gGeom.coordinates[i]) > 0)
    => ((gOut = "true")
            <=> \E i \in 1..Len(gGeom.coordinates) :
                    isPointInPolygon(gPoint, gGeom.coordinates[i]))

PointInSecondPolygonOnly ==
    /\ gFn = "isPointInGeometry"
    /\ gGeom.type = "MultiPolygon"
    /\ Len(gGeom.coordinates) = 2
    /\ Len(gGeom.coordinates[1]) = 2
    /\ Len(gGeom.coordinates[2]) = 1
    /\ ~isPointInPolygon(gPoint, gGeom.coordinates[1])
    /\ isPointInPolygon(gPoint, gGeom.coordinates[2])
    /\ gOut = "true"

\* C11: the ring test gives the same answer for a vertex list and for every
\* cyclic rotation of it.
Rotate(ring, k) ==
    [i \in 1..Len(ring) |-> ring[((i + k - 1) % Len(ring)) + 1]]

RingRotationInvariant ==
    (gFn = "pointInRing")
    => LET ring == gGeom.coordinates[1]
       IN  \A k \in 1..Len(ring) :
                gOut = Bool(pointInRing(gPoint, Rotate(ring, k)))

PointInRotatableTriangle ==
    /\ gFn = "pointInRing"
    /\ gOut = "true"
    /\ Len(gGeom.coordinates[1]) = 3
    /\ Cardinality({gGeom.coordinates[1][i] : i \in 1..3}) = 3

InvalidCoordinateRefused ==
    \A p \in Callers :
        (/\ pc[p] = "done"
         /\ IsClassify(p)
         /\ refresh[p] # "failed"
         /\ ~isValidChicagoCoordinates(req[p].lat, req[p].lng))
        => result[p].kind # "null"

\* C14: the validators accept a coordinate exactly when it lies in the box
\* 41.6..42.1 N, 88.3..87.5 W, edges included: from the south-west corner,
\* at most 0.5 degrees north and at most 0.8 degrees east.
ValidatorBoundary ==
    (gFn \in {"isValidChicagoCoordinates", "isValidCoordinates"})
    => ((gOut = "true")
            <=> /\ 0 <= gPoint[1] /\ gPoint[1] <= 5
                /\ 0 <= gPoint[2] /\ gPoint[2] <= 8)

NorthEastCornerAccepted ==
    /\ gFn = "isValidChicagoCoordinates"
    /\ gPoint = <<5, 8>>
    /\ gOut = "true"

\* C16: getCommunityAreaInfo(n) settles with a cached record whose identifier
\* is the decimal numeral of n when the cache holds one, and with null when
\* it holds none; never with a record of another identifier.
RECURSIVE DecimalValue(_, _)
DecimalValue(cs, acc) ==
    IF cs = <<>> THEN acc ELSE DecimalValue(Tail(cs), 10 * acc + DigitValue(Head(cs)))

IdentifierIs(area, n) ==
    /\ area.area_numbe.defined
    /\ area.area_numbe.chars # <<>>
    /\ \A i \in 1..Len(area.area_numbe.chars) : area.area_numbe.chars[i] \in Digits
    /\ DecimalValue(area.area_numbe.chars, 0) = n

LookupByIdentifier ==
    \A p \in Callers :
        (/\ pc[p] = "done"
         /\ req[p].op = "getCommunityAreaInfo"
         /\ refresh[p] # "failed")
        => LET matches == {i \in 1..Len(communityAreasCache) :
                            IdentifierIs(communityAreasCache[i], req[p].areaNumber)}
           IN  IF matches = {} THEN result[p] = Null
               ELSE /\ result[p].kind = "area"
                    /\ \E i \in matches : result[p].area = communityAreasCache[i]

LookupFindsSecondRecord ==
    \E p \in Callers :
        /\ pc[p] = "done"
        /\ req[p].op = "getCommunityAreaInfo"
        /\ req[p].areaNumber = 1
        /\ Len(communityAreasCache) = 2
        /\ ~IdentifierIs(communityAreasCache[1], 1)
        /\ result[p] = Found(communityAreasCache[2])

\* C17: a cached record whose geometry is malformed never fails a classifier
\* call: it counts as not containing the point, and the call settles with the
\* identifier of the first well-formed record containing the point, or with
\* null when there is none.
WellFormed(g) ==
    /\ g.hasCoordinates
    /\ \/ g.type = "Polygon" /\ Len(g.coordinates) > 0
       \/ /\ g.type = "MultiPolygon"
          /\ \A i \in 1..Len(g.coordinates) : Len(g.coordinates[i]) > 0

InPolygon(point, c) ==
    /\ pointInRing(point, c[1])
    /\ \A i \in 2..Len(c) : ~pointInRing(point, c[i])

WellFormedContaining(cache, point) ==
    {i \in 1..Len(cache) :
        LET g == Geometry(cache[i].the_geom)
        IN  /\ WellFormed(g)
            /\ IF g.type = "Polygon" THEN InPolygon(point, g.coordinates)
               ELSE \E k \in 1..Len(g.coordinates) : InPolygon(point, g.coordinates[k])}

MalformedRecordsSkipped ==
    \A p \in Callers :
        LET hits == WellFormedContaining(communityAreasCache, PointOf(req[p]))
        IN  (/\ pc[p] = "done"
             /\ IsClassify(p)
             /\ refresh[p] # "failed"
             /\ \E j \in 1..Len(communityAreasCache) :
                    /\ ~WellFormed(Geometry(communityAreasCache[j].the_geom))
                    /\ \A i \in hits : j < i)
            =>  IF hits = {} THEN result[p] = Null
               ELSE /\ result[p].kind = "number"
                    /\ IdentifierIs(communityAreasCache[Least(hits)], result[p].n)

\* C20: the classifier settles with null only if no cached record contains
\* the point, whatever identifier string the admission filter admitted.
NullOnlyWhenNoMatch ==
    \A p \in Callers :
        (/\ pc[p] = "done"
         /\ IsClassify(p)
         /\ refresh[p] # "failed"
         /\ result[p] = Null)
        => Containing(communityAreasCache, PointOf(req[p])) = {}

\* C15: a classifier call that issues no refresh leaves the cache and the
\* refresh timestamp unchanged, and when a caller repeats a call with the
\* same coordinate and the second call issues no refresh, the second call
\* settles with what the first settled with.
RepeatedLookupIdempotent ==
    [][\A p \in Callers :
        (/\ pc'[p] # pc[p]
         /\ pc'[p] \in {"ensured", "done"}
         /\ refresh'[p] = "none")
        => /\ UNCHANGED <<communityAreasCache, lastCommunityLoadTime>>
           /\ (pc'[p] = "done" /\ outer'[p].op = "again")
                => result'[p] = outer'[p].inner]_vars

SecondCallSameIdentifier ==
    \E p \in Callers :
        /\ pc[p] = "done"
        /\ outer[p].op = "again"
        /\ refresh[p] = "none"
        /\ Cardinality(Containing(communityAreasCache, PointOf(req[p]))) = 2
        /\ result[p].kind = "number"
        /\ result[p] = outer[p].inner

\* C18: the classifier tests the point x = lng, y = lat, and a park built by
\* convertAPIToPark carries [mean latitude, mean longitude] of its ring's
\* [longitude, latitude] vertices and the identifier of a cached record whose
\* geometry contains the point x = mean longitude, y = mean latitude.
MeanOf(ring, k) ==
    LET RECURSIVE total(_)
        total(i) == IF i = 0 THEN 0 ELSE ring[i][k] + total(i - 1)
    IN  total(Len(ring)) \div Len(ring)

ParkRing(g) ==
    LET geometry == Geometry(g)
    IN  IF geometry.type = "MultiPolygon" THEN geometry.coordinates[1][1]
        ELSE geometry.coordinates[1]

AxisOrder ==
    \A p \in Callers :
        /\ (pc[p] = "done" /\ IsClassify(p) /\ result[p].kind = "number")
            => \E i \in 1..Len(communityAreasCache) :
                /\ isPointInGeometry(<<req[p].lng, req[p].lat>>,
                                     Geometry(communityAreasCache[i].the_geom))
                /\ IdentifierIs(communityAreasCache[i], result[p].n)
        /\ (outer[p].op = "convertAPIToPark" /\ outer[p].state = "value")
            => LET x == MeanOf(ParkRing(outer[p].arg), 1)
                   y == MeanOf(ParkRing(outer[p].arg), 2)
               IN  /\ outer[p].lat = y
                   /\ outer[p].lng = x
                   /\ outer[p].inner.kind = "number"
                   /\ \E i \in 1..Len(communityAreasCache) :
                        /\ isPointInGeometry(<<x, y>>,
                                             Geometry(communityAreasCache[i].the_geom))
                        /\ IdentifierIs(communityAreasCache[i], outer[p].inner.n)

ParkAssignedByLngLat ==
    \E p \in Callers :
        /\ outer[p].op = "convertAPIToPark"
        /\ outer[p].state = "value"
        /\ outer[p].arg = "parkEast"
        /\ outer[p].lat = 1
        /\ outer[p].lng = 5
        /\ outer[p].inner = Number(2)
        /\ Containing(communityAreasCache, <<1, 5>>) = {}

\* C19: getCommunityAreaForAddress never raises: it returns null when
\* geocoding yields nothing and when the classifier call fails, and otherwise
\* a result whose latitude and longitude are the geocoded ones and whose
\* communityArea is the classifier's result for that latitude and longitude.
AddressLookupNeverRaises ==
    \A p \in Callers :
        (outer[p].op = "getCommunityAreaForAddress" /\ outer[p].state # "pending")
        => /\ outer[p].state \in {"null", "value"}
           /\ (pc[p] = "done" /\ refresh[p] = "failed") => outer[p].state = "null"
           /\ outer[p].state = "value"
                => /\ outer[p].lat = outer[p].inLat
                   /\ outer[p].lng = outer[p].inLng
                   /\ req[p] = ClassifierRequest(outer[p].inLat, outer[p].inLng)
                   /\ outer[p].inner =
                        classify(communityAreasCache, outer[p].inLat, outer[p].inLng)

AddressLookupAbsorbsFailure ==
    \E p \in Callers :
        /\ outer[p].op = "getCommunityAreaForAddress"
        /\ outer[p].state = "null"
        /\ pc[p] = "done"
        /\ refresh[p] = "failed"
        /\ result[p] = Rejected

\* C22: the ring test is the even-odd rule: it is true exactly when an odd
\* number of the ring's cyclic edges straddle the point's y in the half-open
\* sense and meet that height at an x greater than the point's x; for an
\* axis-aligned rectangle it is true strictly inside and false strictly
\* outside.
Previous(ring, i) == IF i = 1 THEN ring[Len(ring)] ELSE ring[i - 1]

\* x < a.x + (b.x - a.x) * (y - a.y) / (b.y - a.y), multiplied by the square
\* of b.y - a.y.
CrossesRightOf(x, y, a, b) ==
    /\ (a[2] > y) # (b[2] > y)
    /\ (x - a[1]) * (b[2] - a[2]) * (b[2] - a[2])
            < (b[1] - a[1]) * (y - a[2]) * (b[2] - a[2])

Crossings(point, ring) ==
    {i \in 1..Len(ring) : CrossesRightOf(point[1], point[2], ring[i], Previous(ring, i))}

Opened(ring) ==
    IF Len(ring) >= 2 /\ ring[1] = ring[Len(ring)]
    THEN SubSeq(ring, 1, Len(ring) - 1) ELSE ring

IsRectangle(ring) ==
    LET r == Opened(ring)
        xs == {r[i][1] : i \in 1..Len(r)}
        ys == {r[i][2] : i \in 1..Len(r)}
    IN  /\ Len(r) = 4
        /\ Cardinality(xs) = 2
        /\ Cardinality(ys) = 2
        /\ {r[i] : i \in 1..4} = xs \X ys
        /\ \A i \in 1..4 :
                (r[i][1] = Previous(r, i)[1]) # (r[i][2] = Previous(r, i)[2])

StrictlyInsideBox(point, ring) ==
    /\ \E i, j \in 1..Len(ring) : ring[i][1] < point[1] /\ point[1] < ring[j][1]
    /\ \E i, j \in 1..Len(ring) : ring[i][2] < point[2] /\ point[2] < ring[j][2]

StrictlyOutsideBox(point, ring) ==
    \/ \A i \in 1..Len(ring) : point[1] < ring[i][1]
    \/ \A i \in 1..Len(ring) : point[1] > ring[i][1]
    \/ \A i \in 1..Len(ring) : point[2] < ring[i][2]
    \/ \A i \in 1..Len(ring) : point[2] > ring[i][2]

EvenOddRule ==
    (gFn = "pointInRing")
    => LET ring == gGeom.coordinates[1]
       IN  /\ (gOut = "true") <=> (Cardinality(Crossings(gPoint, ring)) % 2 = 1)
           /\ IsRectangle(ring)
                => /\ StrictlyInsideBox(gPoint, ring) => gOut = "true"
                   /\ StrictlyOutsideBox(gPoint, ring) => gOut = "false"

PointInsideRectangle ==
    /\ gFn = "pointInRing"
    /\ IsRectangle(gGeom.coordinates[1])
    /\ StrictlyInsideBox(gPoint, gGeom.coordinates[1])
    /\ Cardinality(Crossings(gPoint, gGeom.coordinates[1])) = 1
    /\ gOut = "true"

\* C23: the ring test gives the same answer for a ring of at least one vertex
\* and for that ring followed by a copy of its first vertex.
RingClosureIrrelevant ==
    (gFn = "pointInRing" /\ Len(gGeom.coordinates[1]) >= 1)
    => LET ring == gGeom.coordinates[1]
       IN  gOut = Bool(pointInRing(gPoint, Append(ring, ring[1])))

PointInOpenTriangle ==
    /\ gFn = "pointInRing"
    /\ Len(gGeom.coordinates[1]) = 3
    /\ gGeom.coordinates[1][1] # gGeom.coordinates[1][3]
    /\ gOut = "true"
    /\ pointInRing(gPoint, Append(gGeom.coordinates[1], gGeom.coordinates[1][1]))

\* C24: correctParkCommunityArea returns the park passed, unchanged, when
\* the classifier returns null or the area already stored; otherwise it
\* returns a park with the classifier's result as communityArea and every
\* other field as in the park passed.  The park passed is not modified.
CorrectionChangesOnlyAssignment ==
    \A p \in Callers :
        (job[p].op = "correctParkCommunityArea" /\ job[p].state = "value")
        => LET actual == result[p]
               before == job[p].original
               after == job[p].returned
           IN  /\ job[p].park = before
               /\ IF actual = Null \/ actual = Number(before.communityArea)
                  THEN after = before /\ job[p].same
                  ELSE /\ actual.kind = "number"
                       /\ after.communityArea = actual.n
                       /\ after.id = before.id
                       /\ after.name = before.name
                       /\ after.lat = before.lat
                       /\ after.lng = before.lng
                       /\ after.rest = before.rest

ParkCorrected ==
    \E p \in Callers :
        /\ job[p].op = "correctParkCommunityArea"
        /\ job[p].state = "value"
        /\ job[p].original.communityArea = 1
        /\ job[p].returned.communityArea = 2
        /\ job[p].park.communityArea = 1
        /\ ~job[p].same

\* C25: validateParkLocation applied to the park correctParkCommunityArea
\* returned, with no refresh of the store in between, returns true.
CorrectionEstablishesValidity ==
    \A p \in Callers :
        (/\ job[p].op = "validateParkLocation"
         /\ job[p].state = "value"
         /\ refresh[p] = "none")
        => job[p].valid = "true"

\* A refresh of the parks cache by call s ends in this step without having
\* succeeded: the fetch failed, or a community-area lookup of a conversion
\* was rejected.
RefreshFails(s) ==
    \/ svc[s].pc = "fetching" /\ svc'[s].pc \notin {"fetching", "converting"}
    \/ /\ svc[s].pc = "converting"
       /\ svc'[s].pc # "converting"
       /\ \E p \in UsedSlots(svc[s].apiData) : result[p] = Rejected

\* C21: a refresh started by getAllParks that does not succeed never
\* replaces a non-empty parks cache by an empty list.
KeepCacheOnError ==
    [][\A s \in Services :
        (RefreshFails(s) /\ parksCache # <<>>) => parksCache' # <<>>]_vars

\* C27: when loadParksFromAPI assigns the cache, every park in it has valid
\* coordinates and the number the classifier returned for them as its
\* communityArea, and no record with invalid coordinates or a null
\* classification is in it.
ParksCacheInvariant ==
    [][\A s \in Services :
        (svc[s].pc = "converting" /\ svc'[s].pc # "converting")
        => LET apiData == svc[s].apiData
               slot(k) == ParkSlots[k]
               c(k) == extractCoordinates(Geometry(apiData[k]))
               kept(k) ==
                   /\ c(k).found
                   /\ isValidCoordinates(c(k).lat, c(k).lng)
                   /\ isValidChicagoCoordinates(c(k).lat, c(k).lng)
                   /\ req[slot(k)] = ClassifierRequest(c(k).lat, c(k).lng)
                   /\ result[slot(k)].kind = "number"
                   /\ result[slot(k)].n # 0
           IN  /\ \A i \in 1..Len(parksCache') :
                    \E k \in 1..Len(apiData) :
                        /\ kept(k)
                        /\ parksCache'[i].id = apiData[k]
                        /\ parksCache'[i].lat = c(k).lat
                        /\ parksCache'[i].lng = c(k).lng
                        /\ parksCache'[i].communityArea = result[slot(k)].n
               /\ Len(parksCache') = Cardinality({k \in 1..Len(apiData) : kept(k)})
               /\ lastFetchTime' = now]_vars

FilteredParksCached ==
    /\ parksCache = <<Park("parkWestEast", 1, 3, 1)>>
    /\ lastFetchTime = now
    /\ svc["getAllParks"].pc = "done"

\* C28: the final assignment of validateAndCorrectParkLocations does not
\* replace a parks cache that was refreshed after the snapshot was taken.
NoLostUpdate ==
    [][(svc[V].pc \in {"returned", "correcting"} /\ svc'[V].pc = "done"
            /\ parksCache # svc[V].allParks)
        => parksCache' = parksCache]_vars

\* The refresh of the call of c1 failed, and the call has rejected.
RefreshFailed ==
    /\ pc["c1"] = "done"
    /\ refresh["c1"] = "failed"
    /\ result["c1"] = Rejected

\* The call of c1 loaded the store and returned the classification of its
\* point by the records it loaded.
Recovered ==
    /\ pc["c1"] = "done"
    /\ refresh["c1"] = "loaded"
    /\ communityAreasCache = SelectSeq(lastResponseBody.items, admits)
    /\ result["c1"] = classify(communityAreasCache, req["c1"].lat, req["c1"].lng)

\* C26: a failed refresh leaves the load time as it was, so that the store
\* still counts as due for a refresh; and when the caller keeps calling and
\* the source answers in the end, a failed refresh is followed by a call
\* that loads the store and returns the classification by the loaded
\* records.
RecoveryAfterFailedRefresh ==
    /\ [][\A p \in Callers :
            (refresh'[p] = "failed" /\ (refresh[p] # "failed" \/ pc[p] # pc'[p]))
            => /\ lastCommunityLoadTime' = lastCommunityLoadTime
               /\ communityAreasCache' = communityAreasCache
               /\ shouldRefreshCommunityCache']_vars
    /\ (RefreshFailed ~> Recovered)

StaleStoreRefreshFailed ==
    /\ RefreshFailed
    /\ communityAreasCache # <<>>
    /\ now - lastCommunityLoadTime > CACHE_DURATION

\* C29: after fixPolygonWinding the exterior ring has a signed area of at
\* least zero and every hole ring one of at most zero, each ring returned is
\* the ring passed or its reversal, and applying fixPolygonWinding to the
\* result returns the result.
WindingNormalised ==
    wFn = "fixPolygonWinding"
    => /\ Len(wOut) = Len(wIn)
       /\ calculateRingArea(wOut[1]) >= 0
       /\ \A k \in 2..Len(wOut) : calculateRingArea(wOut[k]) <= 0
       /\ \A k \in 1..Len(wOut) : wOut[k] = wIn[k] \/ wOut[k] = reverse(wIn[k])
       /\ wTwice = wOut

\* C30: when a run of the import that received its feed has ended, imported,
\* skipped and the number of errors add up to the number of features; the
\* table never holds two rows with one area number; and a run that follows
\* a run on the same feed leaves the number of rows as it was, unless the
\* database refused a statement for a reason of its own.
ImportAccounting ==
    /\ (imp.pc \in {"responded", "failed"} /\ imp.fetched)
            => imp.imported + imp.skipped + Len(imp.errors) = Len(imp.features)
    /\ \A i, j \in 1..Len(rows) : rows[i].areaNumber = rows[j].areaNumber => i = j
    /\ (imp.pc \in {"responded", "failed"} /\ imp.fetched /\ imp.again /\ ~imp.dbFailed)
            => Len(rows) = imp.rowsBefore

====
